---- MODULE Spec2Model ----
(***************************************************************************)
(* A model of sstart's secret collection pipeline, provider key mapping,   *)
(* cache fingerprint, secret cache, OIDC client, child environment,        *)
(* JSON-RPC proxy and transport, signal forwarding and templates.          *)
(*                                                                         *)
(* The specifications of the module:                                       *)
(*   Spec       the Collector (internal/secrets) driving the providers     *)
(*   SpecKey    cache.GenerateCacheKey as a function of its arguments      *)
(*   SpecCache  the Cache (internal/cache) over its keyring and its file   *)
(*   SpecRace   two goroutines calling Get and Set on one Cache            *)
(*   SpecOIDC   the OIDC client and its token store                        *)
(*   SpecChild  the environment handed to the children of run and mcp      *)
(*   SpecProxy  the proxy between the host and the downstream servers      *)
(*   SpecNames      the namespaced tool names of the proxy                 *)
(*   SpecProxyFail  the proxy with children that close their stdout        *)
(*   SpecTransport  StdioTransport: ReadMessage, WriteMessage, Close       *)
(*   SpecWriters    two goroutines calling WriteMessage on one transport   *)
(*   SpecClassify   IsRequest, IsNotification, IsResponse of a message     *)
(*   SpecSignal     the signal forwarding of Runner.Run                    *)
(*   SpecMcp        the mcp command around proxy.Run and proxy.Stop        *)
(*   SpecTemplate   expandTemplate on a get_env expression                 *)
(*   SpecBuild      NewJSONRPCResponse and NewJSONRPCErrorResponse         *)
(*   SpecExpand     expandConfigTemplates on nested configurations         *)
(*   SpecMask       Mask on one value                                      *)
(*   SpecShell      escapeShell on one value                               *)
(*   SpecRedact     Redact on one text and one map of secrets              *)
(*   SpecFetch      one Fetch of the Doppler or the Infisical provider     *)
(* Each specification leaves the variables of the others unchanged.        *)
(***************************************************************************)
EXTENDS Integers, Sequences, FiniteSets, TLC

VARIABLES
    \* ---- Collector ----
    config,     \* config.Config: the declared providers, in declaration order
    backend,    \* provider id -> the (fixed) response of its backend
    cPc,        \* position of the Collect call: "idle", "loop", "done"
    cArgs,      \* the providerIDs argument of the current call
    cIds,       \* the local providerIDs (the effective list)
    cIdx,       \* index of the next loop iteration
    cSecrets,   \* the accumulating secrets map
    cLog,       \* the Fetch invocations of the current call, in order
    cRet,       \* what the current call returned
    cPrev,      \* what the previous call with the same arguments returned
    cGap,       \* time between the previous call's return and this call
    \* ---- GenerateCacheKey ----
    kCur,       \* arguments and result of the latest GenerateCacheKey call
    kPrev,      \* arguments and result of the call before it
    \* ---- Cache ----
    keyringTested,    \* Cache.keyringTested
    keyringDisabled,  \* Cache.keyringDisabled
    keyringItem,      \* the keyring entry (KeyringService, "cache")
    file,             \* the file at Cache.cachePath
    now,              \* time.Now()
    lastOp,           \* the latest cache operation and what it returned
    lastSet,          \* fingerprint -> the latest Set that returned nil
    \* ---- goroutines sharing one Cache ----
    goroutine,        \* goroutine -> its position in Get or Set and its locals
    \* ---- OIDC client ----
    clientSecret,     \* OIDCConfig.ClientSecret (SSTART_SSO_SECRET), "" if unset
    tokens,           \* the token store's single slot
    issued,           \* how many token sets the identity provider has issued
    auth,             \* the current invocation: position, flags, what it did
    \* ---- child processes ----
    ssoTokens,        \* the tokens the OIDC client handed to the Collector
    child,            \* the latest launch: its inputs, Collect's map, cmd.Env
    \* ---- JSON-RPC proxy ----
    nextChildId,      \* child -> the last request id allocated for it
    table,            \* outstanding (childId, childReqId) -> hostReqId
    childIn,          \* child -> every message written to its stdin
    childOut,         \* child -> its responses not yet read by the proxy
    answered,         \* child -> the positions of childIn it has answered
    hostSent,         \* every request the host wrote
    hostOut,          \* every message the proxy wrote to the host
    routed,           \* every entry the table ever held
    childState,       \* child -> "running", "closed" (stdout closed), "failed"
    \* ---- proxy name space ----
    nsServers,        \* the ids of mcp.servers the configuration was accepted with
    nsDeclared,       \* server index -> the raw names the child declared
    nsListed,         \* the names of the latest aggregated list
    \* ---- StdioTransport ----
    tInput,           \* all the bytes the reader of the transport delivers
    tIn,              \* the bytes of tInput not yet consumed
    tOut,             \* the bytes that reached the writer
    tClosed,          \* StdioTransport.closed
    tCalls,           \* the calls that returned, in order, with their results
    tWriters,         \* goroutine -> its position in WriteMessage and its message
    \* ---- classification of JSON-RPC messages ----
    clsMsg,           \* the JSONRPCMessage being classified
    clsOut,           \* what IsRequest, IsNotification and IsResponse returned for it
    clsArgs,          \* the constructor that built clsMsg and its arguments
    \* ---- signal forwarding of Runner.Run ----
    sigState,         \* where Runner.Run is: "started", "notified", "waited", "stopped", "killed"
    sigChan,          \* the signals buffered in sigChan
    sigDelivered,     \* the signals delivered to sstart, in order
    sigForwarded,     \* the signals sent to the child's process group, in order
    \* ---- the mcp command ----
    mcpPc,            \* where mcpCmd.RunE is: "idle", "running", "returned", "stopped", "done"
    mcpCancelled,     \* whether ctx has been cancelled
    mcpServers,       \* configured server -> "running", "exited" or "stopped"
    mcpRun,           \* why proxy.Run returned and what it returned
    mcpStops,         \* how many times proxy.Stop has been invoked
    mcpErr,           \* what RunE returned, "nil" for no error
    \* ---- expandTemplate on the function form ----
    tplEnv,           \* the operator's environment: name -> value, <<>> when unset or empty
    tplIn,            \* the template handed to expandTemplate
    tplOut,           \* what expandTemplate returned
    \* ---- expandConfigTemplates on nested configurations ----
    xCfg,             \* the Config of the provider, as stored
    xOut,             \* what expandConfigTemplates returned for it
    \* ---- Mask, Redact and escapeShell on one value ----
    txtIn,            \* the value or the text the function is applied to
    txtSecrets,       \* the secret values handed to Redact
    txtOut,           \* the function applied and the string it returned
    \* ---- one Fetch of the Doppler or of the Infisical provider ----
    pvKind,           \* the kind of the provider Fetch is called on
    pvCfg,            \* the config argument of Fetch
    pvEnv,            \* the environment variables the providers read
    pvLog,            \* the lines written with log.Printf, in order
    pvRequests,       \* the requests sent to the backend, in order
    pvRet             \* what Fetch returned

collectorVars == <<config, backend, cPc, cArgs, cIds, cIdx, cSecrets, cLog,
                   cRet, cPrev, cGap>>
keyVars == <<kCur, kPrev>>
cacheVars == <<keyringTested, keyringDisabled, keyringItem, file, now,
               lastOp, lastSet>>
raceVars == <<goroutine>>
oidcVars == <<clientSecret, tokens, issued, auth>>
childVars == <<ssoTokens, child>>
proxyVars == <<nextChildId, table, childIn, childOut, answered, hostSent,
               hostOut, routed, childState>>
namesVars == <<nsServers, nsDeclared, nsListed>>
transportVars == <<tInput, tIn, tOut, tClosed, tCalls, tWriters>>
classifyVars == <<clsMsg, clsOut, clsArgs>>
signalVars == <<sigState, sigChan, sigDelivered, sigForwarded>>
mcpVars == <<mcpPc, mcpCancelled, mcpServers, mcpRun, mcpStops, mcpErr>>
templateVars == <<tplEnv, tplIn, tplOut>>
expandVars == <<xCfg, xOut>>
textVars == <<txtIn, txtSecrets, txtOut>>
fetchVars == <<pvKind, pvCfg, pvEnv, pvLog, pvRequests, pvRet>>
vars == <<collectorVars, keyVars, cacheVars, raceVars, oidcVars, childVars,
          proxyVars,
          namesVars,
          transportVars,
          classifyVars,
          signalVars,
          mcpVars,
          templateVars,
          expandVars,
          textVars,
          fetchVars>>

\* What the operations of one component leave alone.
outsideCollector == <<keyVars, cacheVars, raceVars, oidcVars, childVars,
    proxyVars,
    namesVars,
    transportVars,
    classifyVars,
    signalVars,
    mcpVars,
    templateVars,
    expandVars,
    textVars,
    fetchVars>>
outsideKey == <<collectorVars, cacheVars, raceVars, oidcVars, childVars,
    proxyVars,
    namesVars,
    transportVars,
    classifyVars,
    signalVars,
    mcpVars,
    templateVars,
    expandVars,
    textVars,
    fetchVars>>
outsideCache == <<collectorVars, keyVars, raceVars, oidcVars, childVars,
    proxyVars,
    namesVars,
    transportVars,
    classifyVars,
    signalVars,
    mcpVars,
    templateVars,
    expandVars,
    textVars,
    fetchVars>>
outsideRace == <<collectorVars, keyVars, oidcVars, childVars,
    proxyVars,
    namesVars,
    transportVars,
    classifyVars,
    signalVars,
    mcpVars,
    templateVars,
    expandVars,
    textVars,
    fetchVars>>
outsideOIDC == <<collectorVars, keyVars, cacheVars, raceVars, childVars,
    proxyVars,
    namesVars,
    transportVars,
    classifyVars,
    signalVars,
    mcpVars,
    templateVars,
    expandVars,
    textVars,
    fetchVars>>
outsideChild == <<collectorVars, keyVars, cacheVars, raceVars, oidcVars,
    proxyVars,
    namesVars,
    transportVars,
    classifyVars,
    signalVars,
    mcpVars,
    templateVars,
    expandVars,
    textVars,
    fetchVars>>
outsideProxy == <<collectorVars, keyVars, cacheVars, raceVars, oidcVars,
    childVars,
    namesVars,
    transportVars,
    classifyVars,
    signalVars,
    mcpVars,
    templateVars,
    expandVars,
    textVars,
    fetchVars>>
outsideNames == <<collectorVars, keyVars, cacheVars, raceVars, oidcVars,
    childVars, proxyVars,
    transportVars,
    classifyVars,
    signalVars,
    mcpVars,
    templateVars,
    expandVars,
    textVars,
    fetchVars>>
outsideTransport == <<collectorVars, keyVars, cacheVars, raceVars, oidcVars,
    childVars, proxyVars, namesVars,
    classifyVars,
    signalVars,
    mcpVars,
    templateVars,
    expandVars,
    textVars,
    fetchVars>>
outsideClassify == <<collectorVars, keyVars, cacheVars, raceVars, oidcVars,
    childVars, proxyVars, namesVars, transportVars,
    signalVars,
    mcpVars,
    templateVars,
    expandVars,
    textVars,
    fetchVars>>
outsideSignal == <<collectorVars, keyVars, cacheVars, raceVars, oidcVars,
    childVars, proxyVars, namesVars, transportVars, classifyVars,
    mcpVars,
    templateVars,
    expandVars,
    textVars,
    fetchVars>>
outsideMcp == <<collectorVars, keyVars, cacheVars, raceVars, oidcVars,
    childVars, proxyVars, namesVars, transportVars, classifyVars, signalVars,
    templateVars,
    expandVars,
    textVars,
    fetchVars>>
outsideTemplate == <<collectorVars, keyVars, cacheVars, raceVars, oidcVars,
    childVars, proxyVars, namesVars, transportVars, classifyVars, signalVars, mcpVars,
    expandVars,
    textVars,
    fetchVars>>
outsideExpand == <<collectorVars, keyVars, cacheVars, raceVars, oidcVars,
    childVars, proxyVars, namesVars, transportVars, classifyVars, signalVars, mcpVars, templateVars,
    textVars,
    fetchVars>>
outsideText == <<collectorVars, keyVars, cacheVars, raceVars, oidcVars,
    childVars, proxyVars, namesVars, transportVars, classifyVars, signalVars, mcpVars, templateVars, expandVars,
    fetchVars>>
outsideFetch == <<collectorVars, keyVars, cacheVars, raceVars, oidcVars,
    childVars, proxyVars, namesVars, transportVars, classifyVars, signalVars, mcpVars, templateVars, expandVars, textVars>>

(***************************************************************************)
(* Bounds of the model.                                                    *)
(***************************************************************************)
MaxBytes == 4       \* bytes the reader of a transport delivers
MaxCalls == 3       \* calls made on one transport
MaxChars == 9       \* longest value handed to Mask
MaxFilter == 2      \* longest provider filter passed to Collect
MaxSignals == 3     \* signals delivered to sstart during one run
MaxIssued == 3      \* token sets the identity provider issues
MaxNames == 2       \* names one child declares
MaxQuoted == 5      \* longest value handed to escapeShell
MaxRequests == 2    \* requests the host sends to the proxy
MaxSecret == 9      \* longest credential in the environment
MaxServers == 2     \* servers of one configuration
MaxText == 3        \* longest text handed to Redact
MaxTime == 2        \* the clock runs from 0 to MaxTime
TTL == 1            \* Cache.ttl, in clock ticks

\* The sequences that list a set once each, and those of bounded length.
Orders(S) == {s \in [1..Cardinality(S) -> S] :
                 \A i, j \in 1..Cardinality(S) : i # j => s[i] # s[j]}
SeqsUpTo(S, n) == UNION {[1..m -> S] : m \in 0..n}
Range(s) == {s[i] : i \in DOMAIN s}

(***************************************************************************)
(* Providers: the key mapping of Fetch (Doppler and Infisical).            *)
(*                                                                         *)
(* A backend secret value is [t |-> "str", s |-> ...] for a JSON string    *)
(* and [t |-> "num", n |-> ...] for a JSON number.  A key map is a         *)
(* function from source names to target names; <<>> is the empty map.      *)
(***************************************************************************)
KeepName == "=="

Digits == <<"0", "1", "2", "3", "4", "5", "6", "7", "8", "9">>

\* json.Marshal of a small non-negative number
JSONNumber(n) == Digits[n + 1]

\* Doppler: a string is taken as it is, any other value is JSON encoded.
DopplerValue(v) == IF v.t = "str" THEN v.s ELSE JSONNumber(v.n)

\* Infisical: fmt.Sprintf("%v", v) of the SDK's SecretValue, a string.
InfisicalValue(v) == IF v.t = "str" THEN v.s ELSE JSONNumber(v.n)

\* Whether the loop body reaches the append for source key k.
IsSelected(k, keys) == k \in DOMAIN keys \/ DOMAIN keys = {}

\* A mutant of TargetKey: the "==" sentinel is used as the target name.
TargetKeyLiteral(k, keys) == IF k \in DOMAIN keys THEN keys[k] ELSE k

\* The name under which source key k is returned.
TargetKey(k, keys) ==
    IF k \in DOMAIN keys
    THEN IF keys[k] = KeepName THEN k ELSE keys[k]
    ELSE k

\* The loop "for k, v := range secretData" taken in the iteration order
\* `order`; Go leaves the order of a map range unspecified.
RECURSIVE MapKeys(_, _, _, _)
MapKeys(order, secretData, keys, kind) ==
    IF order = <<>> THEN <<>>
    ELSE LET k == Head(order)
             rest == MapKeys(Tail(order), secretData, keys, kind)
             value == IF kind = "doppler"
                      THEN DopplerValue(secretData[k])
                      ELSE InfisicalValue(secretData[k])
         IN  IF IsSelected(k, keys)
             THEN <<[Key |-> TargetKey(k, keys), Value |-> value]>> \o rest
             ELSE rest

\* Fetch against a backend response: an error, or the mapped pairs.
Fetch(kind, response, keys, order) ==
    IF response.fails
    THEN [err |-> TRUE, kvs |-> <<>>]
    ELSE [err |-> FALSE, kvs |-> MapKeys(order, response.data, keys, kind)]

(***************************************************************************)
(* The provider registry and the configuration.                            *)
(***************************************************************************)
\* The kinds registered by the init functions of the provider packages.
Registered == {"doppler", "infisical", "template"}

\* provider.New: a constructor for a registered kind, an error otherwise.
ProviderNew(kind) == [err |-> kind \notin Registered]

\* Config.GetProvider: the declared provider with this id, or an error.
GetProvider(cfg, id) ==
    IF \E i \in DOMAIN cfg.Providers : cfg.Providers[i].ID = id
    THEN [err |-> FALSE,
          cfg |-> cfg.Providers[CHOOSE i \in DOMAIN cfg.Providers :
                                    cfg.Providers[i].ID = id]]
    ELSE [err |-> TRUE, cfg |-> [ID |-> id, Kind |-> "", Keys |-> <<>>]]

\* The ids of the declared providers, in declaration order.
DeclaredIDs(cfg) == [i \in DOMAIN cfg.Providers |-> cfg.Providers[i].ID]

(***************************************************************************)
(* The configurations and backend responses the model draws from.          *)
(***************************************************************************)
Str(s) == [t |-> "str", s |-> s]
Num(n) == [t |-> "num", n |-> n]

\* Secrets held by the backend of provider "a" and of provider "b".
DataA == [A |-> Str("1"), B |-> Num(7)]
DataB == [A |-> Str("3"), C |-> Str("4")]

\* Key maps: empty; keep and rename; two sources onto one target; a rename
\* onto the name of a key kept with "=="; one listed and one unlisted.
KeyMapsA == {<<>>,
             [A |-> KeepName, B |-> "X"],
             [A |-> "X", B |-> "X"],
             [A |-> "B", B |-> KeepName],
             [A |-> KeepName]}
\* The key map of "b": "C" unlisted and "Z" listed but not in the backend.
KeyMapsB == {[A |-> KeepName, Z |-> "Q"]}

ProviderA(keys) == [ID |-> "a", Kind |-> "doppler", Keys |-> keys]
ProviderB(kind, keys) == [ID |-> "b", Kind |-> kind, Keys |-> keys]

\* "bogus" is a kind no provider package registers.
Configs ==
    {[Providers |-> ps] :
        ps \in UNION {{<<ProviderA(ka), ProviderB(kind, kb)>>,
                       <<ProviderB(kind, kb), ProviderA(ka)>>} :
                      ka \in KeyMapsA, kb \in KeyMapsB,
                      kind \in {"infisical", "bogus"}}}

Backends ==
    {[a |-> [fails |-> FALSE, data |-> DataA],
      b |-> [fails |-> fb, data |-> DataB]] : fb \in BOOLEAN}

\* The ids a caller may pass: the declared ones and one that is not.
FilterIDs == {"a", "b", "z"}
Filters == SeqsUpTo(FilterIDs, MaxFilter)

(***************************************************************************)
(* Collector.Collect                                                       *)
(***************************************************************************)
NoErr == [kind |-> "none", id |-> ""]
NoRet == [isNil |-> TRUE, secrets |-> <<>>, err |-> NoErr]
NoPrev == [valid |-> FALSE, ret |-> NoRet, log |-> <<>>, gap |-> 0]

\* secrets[k] = v
Put(m, k, v) == [x \in DOMAIN m \cup {k} |-> IF x = k THEN v ELSE m[x]]

\* A mutant of Merge: a key already collected keeps its value.
RECURSIVE MergeKeepFirst(_, _)
MergeKeepFirst(secrets, kvs) ==
    IF kvs = <<>> THEN secrets
    ELSE MergeKeepFirst(IF Head(kvs).Key \in DOMAIN secrets THEN secrets
                        ELSE Put(secrets, Head(kvs).Key, Head(kvs).Value),
                        Tail(kvs))

\* for _, kv := range kvs { secrets[kv.Key] = kv.Value }
RECURSIVE Merge(_, _)
Merge(secrets, kvs) ==
    IF kvs = <<>> THEN secrets
    ELSE Merge(Put(secrets, Head(kvs).Key, Head(kvs).Value), Tail(kvs))

\* If no providers specified, use all providers in order.
EffectiveIDs(cfg, providerIDs) ==
    IF Len(providerIDs) = 0 THEN DeclaredIDs(cfg) ELSE providerIDs

\* A mutant of ErrorReturn: the secrets collected so far are returned.
ErrorReturnPartial(secrets, kind, id) ==
    [isNil |-> FALSE, secrets |-> secrets, err |-> [kind |-> kind, id |-> id]]

\* return nil, err
ErrorReturn(secrets, kind, id) ==
    [isNil |-> TRUE, secrets |-> <<>>, err |-> [kind |-> kind, id |-> id]]

\* A call of Collect starts: the effective list is determined.
CollectCall(providerIDs) ==
    /\ cPc \in {"idle", "done"}
    /\ cArgs' = providerIDs
    /\ cIds' = EffectiveIDs(config, providerIDs)
    /\ cIdx' = 1
    /\ cSecrets' = <<>>
    /\ cLog' = <<>>
    /\ cRet' = NoRet
    /\ cPrev' = IF cPc = "done" /\ providerIDs = cArgs
                THEN [valid |-> TRUE, ret |-> cRet, log |-> cLog, gap |-> cGap]
                ELSE NoPrev
    /\ cGap' = 0
    /\ cPc' = "loop"
    /\ UNCHANGED <<config, backend, outsideCollector>>

\* A loop iteration whose GetProvider fails.
CollectUnknown ==
    /\ cPc = "loop" /\ cIdx <= Len(cIds)
    /\ GetProvider(config, cIds[cIdx]).err
    /\ cRet' = ErrorReturn(cSecrets, "notfound", cIds[cIdx])
    /\ cPc' = "done"
    /\ UNCHANGED <<config, backend, cArgs, cIds, cIdx, cSecrets, cLog, cPrev,
                   cGap, outsideCollector>>

\* A loop iteration whose provider.New fails.
CollectCreateFails ==
    /\ cPc = "loop" /\ cIdx <= Len(cIds)
    /\ LET got == GetProvider(config, cIds[cIdx])
       IN  /\ ~got.err
           /\ ProviderNew(got.cfg.Kind).err
    /\ cRet' = ErrorReturn(cSecrets, "create", cIds[cIdx])
    /\ cPc' = "done"
    /\ UNCHANGED <<config, backend, cArgs, cIds, cIdx, cSecrets, cLog, cPrev,
                   cGap, outsideCollector>>

\* A loop iteration that calls Fetch, then fails or merges.
CollectFetch ==
    /\ cPc = "loop" /\ cIdx <= Len(cIds)
    /\ LET got == GetProvider(config, cIds[cIdx])
       IN  /\ ~got.err
           /\ ~ProviderNew(got.cfg.Kind).err
           /\ \E order \in Orders(DOMAIN backend[got.cfg.ID].data) :
                LET r == Fetch(got.cfg.Kind, backend[got.cfg.ID],
                               got.cfg.Keys, order)
                IN  /\ cLog' = Append(cLog, [id |-> got.cfg.ID,
                                             err |-> r.err, kvs |-> r.kvs])
                    /\ IF r.err
                       THEN /\ cRet' = ErrorReturn(cSecrets, "fetch", cIds[cIdx])
                            /\ cPc' = "done"
                            /\ UNCHANGED <<cSecrets, cIdx>>
                       ELSE /\ cSecrets' = Merge(cSecrets, r.kvs)
                            /\ cIdx' = cIdx + 1
                            /\ UNCHANGED <<cRet, cPc>>
    /\ UNCHANGED <<config, backend, cArgs, cIds, cPrev, cGap, 
                   outsideCollector>>

\* The loop is over: return secrets, nil.
CollectReturn ==
    /\ cPc = "loop" /\ cIdx > Len(cIds)
    /\ cRet' = [isNil |-> FALSE, secrets |-> cSecrets, err |-> NoErr]
    /\ cPc' = "done"
    /\ UNCHANGED <<config, backend, cArgs, cIds, cIdx, cSecrets, cLog, cPrev,
                   cGap, outsideCollector>>

\* Time passes after a call has returned (counted up to TTL + 1).
CollectorTick ==
    /\ cPc = "done"
    /\ cGap <= TTL
    /\ cGap' = cGap + 1
    /\ UNCHANGED <<config, backend, cPc, cArgs, cIds, cIdx, cSecrets, cLog,
                   cRet, cPrev, outsideCollector>>

(***************************************************************************)
(* cache.GenerateCacheKey                                                  *)
(*                                                                         *)
(* A config value is one of                                                *)
(*   [t |-> "str", s |-> ...]    a string (of letters and digits)          *)
(*   [t |-> "int", n |-> ...]    an integer                                *)
(*   [t |-> "map", m |-> ...]    a map[string]interface{}                  *)
(*   [t |-> "list", l |-> ...]   a []interface{}                           *)
(*   [t |-> "nan"]               a value encoding/json refuses: a float    *)
(*                               NaN or Inf (YAML .nan, .inf)              *)
(* A config is [isNil |-> ..., m |-> ...]; JSON text is a string.          *)
(***************************************************************************)
ReservedKeys == {"_sso_access_token", "_sso_id_token"}

\* The map keys of the model in the order sort.Strings and encoding/json
\* put them (byte order).
KeyOrder == <<"_sso_access_token", "_sso_id_token", "address", "n", "opts">>
SortedKeys(S) == SelectSeq(KeyOrder, LAMBDA k : k \in S)

MarshalFailed == [ok |-> FALSE, s |-> ""]

\* json.Marshal of a value: the JSON text, or an error.
RECURSIVE MarshalValue(_), MarshalMembers(_, _), MarshalItems(_)
MarshalValue(v) ==
    CASE v.t = "str" -> [ok |-> TRUE, s |-> "\"" \o v.s \o "\""]
      [] v.t = "int" -> [ok |-> TRUE, s |-> Digits[v.n + 1]]
      [] v.t = "map" ->
            LET r == MarshalMembers(v.m, SortedKeys(DOMAIN v.m))
            IN  IF r.ok THEN [ok |-> TRUE, s |-> "{" \o r.s \o "}"]
                ELSE MarshalFailed
      [] v.t = "list" ->
            LET r == MarshalItems(v.l)
            IN  IF r.ok THEN [ok |-> TRUE, s |-> "[" \o r.s \o "]"]
                ELSE MarshalFailed
      [] OTHER -> MarshalFailed
MarshalMembers(m, ks) ==
    IF ks = <<>> THEN [ok |-> TRUE, s |-> ""]
    ELSE LET h == MarshalValue(m[Head(ks)])
             t == MarshalMembers(m, Tail(ks))
         IN  IF ~h.ok \/ ~t.ok THEN MarshalFailed
             ELSE [ok |-> TRUE,
                   s |-> "\"" \o Head(ks) \o "\":" \o h.s
                         \o (IF Tail(ks) = <<>> THEN "" ELSE "," \o t.s)]
MarshalItems(l) ==
    IF l = <<>> THEN [ok |-> TRUE, s |-> ""]
    ELSE LET h == MarshalValue(Head(l))
             t == MarshalItems(Tail(l))
         IN  IF ~h.ok \/ ~t.ok THEN MarshalFailed
             ELSE [ok |-> TRUE,
                   s |-> h.s \o (IF Tail(l) = <<>> THEN "" ELSE "," \o t.s)]

\* A mutant of KeptKeys: the reserved SSO keys are not skipped.
KeptKeysAll(m) == SortedKeys(DOMAIN m)

\* The keys sortedConfigString copies: all but the SSO tokens, sorted.
KeptKeys(m) == SortedKeys(DOMAIN m \ ReservedKeys)

\* sortedConfigString: "{}" for a nil config, otherwise the JSON text of
\* the kept entries; the error of json.Marshal is dropped, which leaves
\* the empty string.
SortedConfigString(cfg) ==
    IF cfg.isNil THEN "{}"
    ELSE LET keys == KeptKeys(cfg.m)
             result == [k \in Range(keys) |-> cfg.m[k]]
             r == MarshalValue([t |-> "map", m |-> result])
         IN  IF r.ok THEN r.s ELSE ""

\* sha256.Sum256 and hex.EncodeToString, taken as injective.
Sha256Hex(bytes) == <<"sha256">> \o bytes

\* GenerateCacheKey: the hash of the JSON text of the map with the keys
\* "config", "kind" and "provider_id" (three strings, so this json.Marshal
\* cannot fail).  The text is kept as its pieces: the three JSON string
\* literals stand for their contents, quoting being injective.
GenerateCacheKey(providerID, kind, cfg) ==
    Sha256Hex(<<"{\"config\":", SortedConfigString(cfg),
                ",\"kind\":", kind,
                ",\"provider_id\":", providerID, "}">>)

\* The arguments the model draws from.
CStr(s) == [t |-> "str", s |-> s]
CInt(n) == [t |-> "int", n |-> n]
CMap(m) == [t |-> "map", m |-> m]
CList(l) == [t |-> "list", l |-> l]
CNaN == [t |-> "nan"]

Entry(k, values) == {k :> v : v \in values}

\* No token, an access token, or another access token and an id token.
KeyTokens ==
    {<<>>,
     "_sso_access_token" :> CStr("t1"),
     ("_sso_access_token" :> CStr("t2")) @@ ("_sso_id_token" :> CStr("i1"))}

KeyConfigMaps ==
    {<<>>} \cup
    {a @@ o @@ t :
        a \in Entry("address", {CStr("u1"), CStr("u2")}),
        o \in {<<>>} \cup
              Entry("opts", {CMap("n" :> CInt(1)),
                             CList(<<CStr("u1"), CMap("n" :> CInt(2))>>),
                             CNaN}),
        t \in KeyTokens}

KeyConfigs ==
    {[isNil |-> TRUE, m |-> <<>>]}
        \cup {[isNil |-> FALSE, m |-> m] : m \in KeyConfigMaps}

KeyProviders == {<<"p1", "vault">>, <<"p2", "vault">>, <<"p1", "aws">>}

NoKeyCall == [valid |-> FALSE, providerID |-> "", kind |-> "",
              cfg |-> [isNil |-> TRUE, m |-> <<>>], key |-> <<>>]

\* A call of GenerateCacheKey; the call before it is remembered.
GenerateCacheKeyCall(providerID, kind, cfg) ==
    /\ kPrev' = kCur
    /\ kCur' = [valid |-> TRUE, providerID |-> providerID, kind |-> kind,
                cfg |-> cfg, key |-> GenerateCacheKey(providerID, kind, cfg)]
    /\ UNCHANGED outsideKey

(***************************************************************************)
(* cache.Cache                                                             *)
(*                                                                         *)
(* What a backend (the keyring entry, the file) holds is                   *)
(*   [kind |-> "absent"]    nothing                                        *)
(*   [kind |-> "garbage"]   text that is not JSON                          *)
(*   [kind |-> "json", providers |-> P]   the JSON of a CacheStore         *)
(* where P is [isNil |-> ..., m |-> ...]: a nil map ("{}" or               *)
(* {"providers": null}) or the map from cache keys to CachedSecrets.       *)
(* A loaded store is [isNil |-> ..., Providers |-> P]; isNil is the nil    *)
(* *CacheStore.  The keyring answers reads and deletes reliably once the   *)
(* probe found it usable; keyring.Set may fail (ErrSetDataTooBig).  File   *)
(* writes succeed.                                                         *)
(***************************************************************************)
Absent == [kind |-> "absent"]
Garbage == [kind |-> "garbage"]
NilProviders == [isNil |-> TRUE, m |-> <<>>]
NilStore == [isNil |-> TRUE, Providers |-> NilProviders]

CacheKeys == {"f1", "f2"}
SecretMaps == {[KEY |-> "v1"], [KEY |-> "v2"]}

\* json.Marshal / json.MarshalIndent of a CacheStore.
MarshalStore(store) == [kind |-> "json", providers |-> store.Providers]

\* json.Unmarshal into a CacheStore.
UnmarshalStore(content) ==
    IF content.kind = "json"
    THEN [ok |-> TRUE,
          store |-> [isNil |-> FALSE, Providers |-> content.providers]]
    ELSE [ok |-> FALSE, store |-> NilStore]

\* The fields of the Cache and the two backends, as one record.
CacheState ==
    [tested |-> keyringTested, disabled |-> keyringDisabled,
     kr |-> keyringItem, file |-> file]

\* A mutant of isKeyringAvailable: the answer is not memoized.
IsKeyringAvailableUnmemoized(c, usable) ==
    [c |-> [c EXCEPT !.tested = TRUE, !.disabled = ~usable],
     avail |-> usable, probed |-> TRUE]

\* isKeyringAvailable: the memoized answer, or the probe; `usable` is
\* whether the probe's keyring.Get ends with nil or ErrNotFound.
\* `probed` tells whether this call ran the probe.
IsKeyringAvailable(c, usable) ==
    IF c.tested
    THEN [c |-> c, avail |-> ~c.disabled, probed |-> FALSE]
    ELSE [c |-> [c EXCEPT !.tested = TRUE, !.disabled = ~usable],
          avail |-> usable, probed |-> TRUE]

\* loadStoreFromFile: nil when the file is missing or is not JSON.
LoadStoreFromFile(c) ==
    IF c.file.kind = "absent" THEN NilStore
    ELSE UnmarshalStore(c.file).store

\* loadStore: the keyring entry when there is one, else the file; a
\* keyring entry that is not JSON is deleted.  `keyring` tells whether the
\* call went to the keyring, `probed` whether it ran the probe.
LoadStore(c, usable) ==
    LET p == IsKeyringAvailable(c, usable)
        at == [keyring |-> p.avail, probed |-> p.probed]
    IN  IF p.avail /\ p.c.kr.kind # "absent"
        THEN IF UnmarshalStore(p.c.kr).ok
             THEN at @@ [c |-> p.c, store |-> UnmarshalStore(p.c.kr).store]
             ELSE LET c2 == [p.c EXCEPT !.kr = Absent]
                  IN  at @@ [c |-> c2, store |-> LoadStoreFromFile(c2)]
        ELSE at @@ [c |-> p.c, store |-> LoadStoreFromFile(p.c)]

\* saveStoreToFile
SaveStoreToFile(c, store) == [c EXCEPT !.file = MarshalStore(store)]

\* saveStore: the keyring when it is available and takes the write (the
\* file is then removed), else the file.
SaveStore(c, store, usable, setOk) ==
    LET p == IsKeyringAvailable(c, usable)
    IN  IF p.avail /\ setOk
        THEN [p.c EXCEPT !.kr = MarshalStore(store), !.file = Absent]
        ELSE SaveStoreToFile(p.c, store)

\* time.Now().After(cached.ExpiresAt)
IsExpired(t, expiresAt) == t > expiresAt

\* now.Before(cached.ExpiresAt)
IsValid(t, expiresAt) == t < expiresAt

\* delete(store.Providers, cacheKey); a no-op on a nil map
DeleteKey(store, cacheKey) ==
    [store EXCEPT !.Providers.m =
        [k \in DOMAIN store.Providers.m \ {cacheKey} |-> store.Providers.m[k]]]

NoEntry == [exists |-> FALSE, Secrets |-> <<>>, ExpiresAt |-> 0]
NoSet == [valid |-> FALSE, secrets |-> <<>>, at |-> 0]
NoOp == [op |-> "none", key |-> "", at |-> 0, found |-> FALSE,
         secrets |-> <<>>, entry |-> NoEntry, stats |-> <<0, 0, 0>>,
         panicked |-> FALSE, tested |-> FALSE, disabled |-> FALSE,
         probed |-> FALSE, keyring |-> FALSE, before |-> <<>>,
         wrote |-> FALSE]

\* The record of an operation that started now and loaded, or probed, l.
Started(op, cacheKey, l) ==
    [NoOp EXCEPT !.op = op, !.key = cacheKey, !.at = now,
                 !.tested = keyringTested, !.disabled = keyringDisabled,
                 !.probed = l.probed, !.keyring = l.keyring]

\* What the probe of the keyring can answer: it runs once per Cache.
ProbeOutcomes == IF keyringTested THEN {~keyringDisabled} ELSE BOOLEAN

\* What keyring.Set can answer; it is not called, and its answer is of no
\* consequence, once the keyring was classified unusable.
SetOutcomes == IF keyringTested /\ keyringDisabled THEN {TRUE} ELSE BOOLEAN

\* The Cache fields and the backends after an operation.
CacheBecomes(c) ==
    /\ keyringTested' = c.tested
    /\ keyringDisabled' = c.disabled
    /\ keyringItem' = c.kr
    /\ file' = c.file

\* Cache.Get
Get(cacheKey) ==
    /\ ~lastOp.panicked
    /\ \E usable \in ProbeOutcomes :
        LET l == LoadStore(CacheState, usable)
            m == l.store.Providers.m
            exists == ~l.store.isNil /\ cacheKey \in DOMAIN m
            entry == IF exists
                     THEN [exists |-> TRUE, Secrets |-> m[cacheKey].Secrets,
                           ExpiresAt |-> m[cacheKey].ExpiresAt]
                     ELSE NoEntry
            expired == exists /\ IsExpired(now, m[cacheKey].ExpiresAt)
        IN  /\ IF expired
               THEN \E setOk \in SetOutcomes :
                       CacheBecomes(SaveStore(l.c, DeleteKey(l.store, cacheKey),
                                              usable, setOk))
               ELSE CacheBecomes(l.c)
            /\ lastOp' = [Started("Get", cacheKey, l) EXCEPT
                            !.entry = entry, !.before = m,
                            !.wrote = expired,
                            !.found = exists /\ ~expired,
                            !.secrets = IF exists /\ ~expired
                                        THEN m[cacheKey].Secrets ELSE <<>>]
    /\ UNCHANGED <<now, lastSet, outsideCache>>

\* Cache.Set; the assignment to an entry of a nil Providers map panics.
Set(cacheKey, secrets) ==
    /\ ~lastOp.panicked
    /\ \E usable \in ProbeOutcomes, setOk \in SetOutcomes :
        LET l == LoadStore(CacheState, usable)
            store == IF l.store.isNil
                     THEN [isNil |-> FALSE,
                           Providers |-> [isNil |-> FALSE, m |-> <<>>]]
                     ELSE l.store
            cached == [Secrets |-> secrets, CachedAt |-> now,
                       ExpiresAt |-> now + TTL]
        IN  IF store.Providers.isNil
            THEN /\ CacheBecomes(l.c)
                 /\ lastOp' = [Started("Set", cacheKey, l) EXCEPT
                                 !.panicked = TRUE]
                 /\ UNCHANGED lastSet
            ELSE /\ CacheBecomes(SaveStore(l.c,
                        [store EXCEPT !.Providers.m =
                            Put(store.Providers.m, cacheKey, cached)],
                        usable, setOk))
                 /\ lastOp' = [Started("Set", cacheKey, l) EXCEPT
                                 !.before = store.Providers.m,
                                 !.wrote = TRUE]
                 /\ lastSet' = [lastSet EXCEPT ![cacheKey] =
                        [valid |-> TRUE, secrets |-> secrets, at |-> now]]
    /\ UNCHANGED <<now, outsideCache>>

\* Cache.Clear
Clear ==
    /\ ~lastOp.panicked
    /\ \E usable \in ProbeOutcomes :
        LET p == IsKeyringAvailable(CacheState, usable)
        IN  /\ CacheBecomes([p.c EXCEPT
                    !.kr = IF p.avail THEN Absent ELSE p.c.kr,
                    !.file = Absent])
            /\ lastOp' = [Started("Clear", "",
                                  [probed |-> p.probed, keyring |-> p.avail])
                             EXCEPT !.wrote = TRUE]
    /\ lastSet' = [k \in CacheKeys |-> NoSet]
    /\ UNCHANGED <<now, outsideCache>>

\* Cache.ClearProvider
ClearProvider(cacheKey) ==
    /\ ~lastOp.panicked
    /\ \E usable \in ProbeOutcomes :
        LET l == LoadStore(CacheState, usable)
        IN  /\ IF l.store.isNil
               THEN CacheBecomes(l.c)
               ELSE \E setOk \in SetOutcomes :
                       CacheBecomes(SaveStore(l.c, DeleteKey(l.store, cacheKey),
                                              usable, setOk))
            /\ lastOp' = [Started("ClearProvider", cacheKey, l) EXCEPT
                            !.before = l.store.Providers.m,
                            !.wrote = ~l.store.isNil]
    /\ lastSet' = [lastSet EXCEPT ![cacheKey] = NoSet]
    /\ UNCHANGED <<now, outsideCache>>

\* Cache.CleanExpired
CleanExpired ==
    /\ ~lastOp.panicked
    /\ \E usable \in ProbeOutcomes :
        LET l == LoadStore(CacheState, usable)
            m == l.store.Providers.m
            gone == {k \in DOMAIN m : IsExpired(now, m[k].ExpiresAt)}
            kept == [l.store EXCEPT !.Providers.m =
                        [k \in DOMAIN m \ gone |-> m[k]]]
        IN  /\ IF l.store.isNil \/ gone = {}
               THEN CacheBecomes(l.c)
               ELSE \E setOk \in SetOutcomes :
                       CacheBecomes(SaveStore(l.c, kept, usable, setOk))
            /\ lastOp' = [Started("CleanExpired", "", l) EXCEPT
                            !.before = m,
                            !.wrote = ~(l.store.isNil \/ gone = {})]
    /\ UNCHANGED <<now, lastSet, outsideCache>>

\* Cache.Stats
Stats ==
    /\ ~lastOp.panicked
    /\ \E usable \in ProbeOutcomes :
        LET l == LoadStore(CacheState, usable)
            m == l.store.Providers.m
            valid == {k \in DOMAIN m : IsValid(now, m[k].ExpiresAt)}
        IN  /\ CacheBecomes(l.c)
            /\ lastOp' = [Started("Stats", "", l) EXCEPT
                            !.before = m,
                            !.stats = <<Cardinality(DOMAIN m),
                                        Cardinality(valid),
                                        Cardinality(DOMAIN m \ valid)>>]
    /\ UNCHANGED <<now, lastSet, outsideCache>>

\* The clock advances.
Tick ==
    /\ now < MaxTime
    /\ now' = now + 1
    /\ UNCHANGED <<keyringTested, keyringDisabled, keyringItem, file, lastOp,
                   lastSet, outsideCache>>

(***************************************************************************)
(* Two goroutines sharing one Cache.  The Cache holds no lock: Get and     *)
(* Set each load the store, change their own copy and save it, so the      *)
(* steps of two calls interleave between the load and the save.            *)
(***************************************************************************)
Goroutines == {"g1", "g2"}

EmptyStore == [isNil |-> FALSE, Providers |-> [isNil |-> FALSE, m |-> <<>>]]
Returned == [pc |-> "idle", key |-> "", secrets |-> <<>>, at |-> 0,
             store |-> NilStore, found |-> FALSE]

NooneRunning == \A g \in Goroutines : goroutine[g].pc = "idle"
NoonePanicked == \A g \in Goroutines : goroutine[g].pc # "panicked"

\* Set up to the call of saveStore: load, then assign into the copy.
SetLoads(g, cacheKey, secrets) ==
    /\ NoonePanicked
    /\ goroutine[g].pc = "idle"
    /\ \E usable \in ProbeOutcomes :
        LET l == LoadStore(CacheState, usable)
            store == IF l.store.isNil THEN EmptyStore ELSE l.store
            cached == [Secrets |-> secrets, CachedAt |-> now,
                       ExpiresAt |-> now + TTL]
        IN  /\ CacheBecomes(l.c)
            /\ goroutine' = [goroutine EXCEPT ![g] =
                   IF store.Providers.isNil
                   THEN [Returned EXCEPT !.pc = "panicked"]
                   ELSE [pc |-> "set", key |-> cacheKey, secrets |-> secrets,
                         at |-> now, found |-> FALSE,
                         store |-> [store EXCEPT !.Providers.m =
                             Put(store.Providers.m, cacheKey, cached)]]]
    /\ UNCHANGED <<now, lastOp, lastSet, outsideRace>>

\* Set from saveStore to its return.
SetSaves(g) ==
    /\ NoonePanicked
    /\ goroutine[g].pc = "set"
    /\ \E usable \in ProbeOutcomes, setOk \in SetOutcomes :
           CacheBecomes(SaveStore(CacheState, goroutine[g].store, usable, setOk))
    /\ lastSet' = [lastSet EXCEPT ![goroutine[g].key] =
           [valid |-> TRUE, secrets |-> goroutine[g].secrets,
            at |-> goroutine[g].at]]
    /\ goroutine' = [goroutine EXCEPT ![g] = Returned]
    /\ UNCHANGED <<now, lastOp, outsideRace>>

\* Get up to its return, or up to the saveStore that prunes an expired
\* entry.
GetLoads(g, cacheKey) ==
    /\ NoonePanicked
    /\ goroutine[g].pc = "idle"
    /\ \E usable \in ProbeOutcomes :
        LET l == LoadStore(CacheState, usable)
            m == l.store.Providers.m
            exists == ~l.store.isNil /\ cacheKey \in DOMAIN m
            expired == exists /\ IsExpired(now, m[cacheKey].ExpiresAt)
        IN  /\ CacheBecomes(l.c)
            /\ goroutine' = [goroutine EXCEPT ![g] =
                   IF expired
                   THEN [Returned EXCEPT !.pc = "prune", !.key = cacheKey,
                            !.store = DeleteKey(l.store, cacheKey)]
                   ELSE [Returned EXCEPT !.key = cacheKey,
                            !.found = exists,
                            !.secrets = IF exists THEN m[cacheKey].Secrets
                                        ELSE <<>>]]
    /\ UNCHANGED <<now, lastOp, lastSet, outsideRace>>

\* The saveStore of a pruning Get, and its return.
GetSaves(g) ==
    /\ NoonePanicked
    /\ goroutine[g].pc = "prune"
    /\ \E usable \in ProbeOutcomes, setOk \in SetOutcomes :
           CacheBecomes(SaveStore(CacheState, goroutine[g].store, usable, setOk))
    /\ goroutine' = [goroutine EXCEPT ![g] =
           [Returned EXCEPT !.key = goroutine[g].key]]
    /\ UNCHANGED <<now, lastOp, lastSet, outsideRace>>

(***************************************************************************)
(* The OIDC client: the token state machine of one invocation after        *)
(* another.  A token set is [state, serial]: state is "valid" or "stale"   *)
(* (past expiry or within the refresh margin), serial tells one issued     *)
(* set from another.  An invocation loads the stored tokens, uses them,    *)
(* refreshes them or authenticates afresh; auth.events collects what it    *)
(* did: "stored", "refresh", "client_credentials", "pkce".                 *)
(***************************************************************************)
NoTokens == [state |-> "absent", serial |-> 0]
Issue(n) == [state |-> "valid", serial |-> n]
NotRunning == [pc |-> "idle", forceAuth |-> FALSE, events |-> {},
               err |-> FALSE, had |-> NoTokens]

\* Client.HasClientCredentials
HasClientCredentials == clientSecret # ""

\* Client.TokensExist
TokensExist == tokens.state # "absent"

\* A mutant of UsesStored: --force-auth is not looked at.
UsesStoredAnyway(forceAuth, stored) == stored.state \in {"valid", "stale"}

\* Whether an invocation works from the stored tokens.
UsesStored(forceAuth, stored) ==
    ~forceAuth /\ stored.state \in {"valid", "stale"}

\* A mutant of AfterFailedGrant: a failed client-credentials grant falls
\* back to the interactive flow.
AfterFailedGrantFallsBack(flow) ==
    IF flow = "client_credentials" THEN "interactive" ELSE "failed"

\* Where an invocation goes when its token grant failed: failure is
\* terminal in both modes.
AfterFailedGrant(flow) == "failed"

\* An invocation starts, with or without --force-auth.
Invoke(forceAuth) ==
    /\ auth.pc \in {"idle", "done", "failed"}
    /\ auth' = [NotRunning EXCEPT !.pc = "load", !.forceAuth = forceAuth,
                                  !.had = tokens]
    /\ UNCHANGED <<clientSecret, tokens, issued, outsideOIDC>>

\* --force-auth, or no stored tokens: the store is cleared and a full
\* authentication follows.
ClearTokens ==
    /\ auth.pc = "load"
    /\ ~UsesStored(auth.forceAuth, tokens)
    /\ tokens' = NoTokens
    /\ auth' = [auth EXCEPT !.pc = "authenticate"]
    /\ UNCHANGED <<clientSecret, issued, outsideOIDC>>

\* Stored tokens that are not expired are used as they are.
LoadTokens ==
    /\ auth.pc = "load"
    /\ UsesStored(auth.forceAuth, tokens)
    /\ tokens.state = "valid"
    /\ auth' = [auth EXCEPT !.pc = "done", !.events = @ \cup {"stored"}]
    /\ UNCHANGED <<clientSecret, tokens, issued, outsideOIDC>>

\* Stale tokens are refreshed; a dead refresh token empties the store and
\* a fresh authentication follows.
Refresh ==
    /\ auth.pc = "load"
    /\ UsesStored(auth.forceAuth, tokens)
    /\ tokens.state = "stale"
    /\ issued < MaxIssued
    /\ \E ok \in BOOLEAN :
          IF ok
          THEN /\ tokens' = Issue(issued + 1)
               /\ issued' = issued + 1
               /\ auth' = [auth EXCEPT !.pc = "done",
                                       !.events = @ \cup {"refresh"}]
          ELSE /\ tokens' = NoTokens
               /\ issued' = issued
               /\ auth' = [auth EXCEPT !.pc = "authenticate",
                                       !.events = @ \cup {"refresh"}]
    /\ UNCHANGED <<clientSecret, outsideOIDC>>

\* The client-credentials grant: a POST to the token endpoint.
ClientCredentials ==
    /\ auth.pc = "authenticate"
    /\ HasClientCredentials
    /\ issued < MaxIssued
    /\ \E ok \in BOOLEAN :
          IF ok
          THEN /\ tokens' = Issue(issued + 1)
               /\ issued' = issued + 1
               /\ auth' = [auth EXCEPT !.pc = "done",
                              !.events = @ \cup {"client_credentials"}]
          ELSE /\ UNCHANGED <<tokens, issued>>
               /\ auth' = [auth EXCEPT
                              !.pc = AfterFailedGrant("client_credentials"),
                              !.err = TRUE,
                              !.events = @ \cup {"client_credentials"}]
    /\ UNCHANGED <<clientSecret, outsideOIDC>>

\* The interactive flow: loopback listener, browser, code exchange.
PKCE ==
    /\ \/ auth.pc = "authenticate" /\ ~HasClientCredentials
       \/ auth.pc = "interactive"
    /\ issued < MaxIssued
    /\ \E ok \in BOOLEAN :
          IF ok
          THEN /\ tokens' = Issue(issued + 1)
               /\ issued' = issued + 1
               /\ auth' = [auth EXCEPT !.pc = "done", !.err = FALSE,
                                       !.events = @ \cup {"pkce"}]
          ELSE /\ UNCHANGED <<tokens, issued>>
               /\ auth' = [auth EXCEPT !.pc = AfterFailedGrant("pkce"),
                                       !.err = TRUE,
                                       !.events = @ \cup {"pkce"}]
    /\ UNCHANGED <<clientSecret, outsideOIDC>>

\* Time passes the expiry less the refresh margin.
Expire ==
    /\ auth.pc \in {"idle", "done", "failed"}
    /\ tokens.state = "valid"
    /\ tokens' = [tokens EXCEPT !.state = "stale"]
    /\ UNCHANGED <<clientSecret, issued, auth, outsideOIDC>>

(***************************************************************************)
(* Launching a child process with the collected secrets.                   *)
(*                                                                         *)
(* The operator's OIDC tokens reach a provider through its configuration   *)
(* map only: the Collector expands the templates of the configuration,     *)
(* adds the tokens under the reserved keys and calls Fetch.  Doppler        *)
(* reads the fields of DopplerConfig from the map and nothing else.  The  *)
(* `run` command and the `mcp` command build the environment of their      *)
(* children from os.Environ() and the map Collect returned.                *)
(* An environment is a sequence of [key |-> ..., value |-> ...], one per   *)
(* "key=value" string.                                                     *)
(***************************************************************************)
\* os.Environ() of sstart itself.
Environ == <<[key |-> "PATH", value |-> "/bin"],
             [key |-> "DOPPLER_TOKEN", value |-> "dp.st.x"],
             [key |-> "P", value |-> "proj"],
             [key |-> "A", value |-> "ambient"]>>

\* os.Getenv
Getenv(name) ==
    IF \E i \in DOMAIN Environ : Environ[i].key = name
    THEN Environ[CHOOSE i \in DOMAIN Environ : Environ[i].key = name].value
    ELSE ""

\* The strings of the model that refer to an environment variable.
EnvRefs == ("$P" :> "P") @@ ("${Q}" :> "Q")

\* expandTemplate: a string without "$" and "{{" is left as it is.
ExpandTemplate(s) == IF s \in DOMAIN EnvRefs THEN Getenv(EnvRefs[s]) ELSE s

\* expandConfigTemplates: a string is expanded, a map is expanded in turn,
\* the strings of a list are expanded and its other items kept as they
\* are, any other value is kept.
RECURSIVE ExpandConfigTemplates(_)
ExpandConfigTemplates(cfg) ==
    [k \in DOMAIN cfg |->
        CASE cfg[k].t = "str" -> CStr(ExpandTemplate(cfg[k].s))
          [] cfg[k].t = "map" -> CMap(ExpandConfigTemplates(cfg[k].m))
          [] cfg[k].t = "list" ->
                 CList([i \in DOMAIN cfg[k].l |->
                           IF cfg[k].l[i].t = "str"
                           THEN CStr(ExpandTemplate(cfg[k].l[i].s))
                           ELSE cfg[k].l[i]])
          [] OTHER -> cfg[k]]

\* The tokens of the operator: none (no OIDC block), or one of two sets.
NoSSO == [present |-> FALSE, access |-> "", id |-> ""]
SSOTokens == {NoSSO,
              [present |-> TRUE, access |-> "at1", id |-> "it1"],
              [present |-> TRUE, access |-> "at2", id |-> "it2"]}

\* The tokens are added to the expanded configuration of a provider.
InjectTokens(cfg, t) ==
    IF t.present
    THEN ("_sso_access_token" :> CStr(t.access))
             @@ ("_sso_id_token" :> CStr(t.id)) @@ cfg
    ELSE cfg

\* A string field of DopplerConfig after the JSON round trip of parseConfig.
ConfigField(cfg, k) == IF k \in DOMAIN cfg THEN cfg[k] ELSE CStr("")

\* parseConfig: the three fields of DopplerConfig; a field that is not a
\* JSON string fails json.Unmarshal; any other key of the map is dropped.
ParseConfig(cfg) ==
    [err |-> \E k \in {"project", "config", "api_host"} :
                 ConfigField(cfg, k).t # "str",
     Project |-> ConfigField(cfg, "project"),
     Config |-> ConfigField(cfg, "config"),
     APIHost |-> ConfigField(cfg, "api_host")]

\* What the Doppler API answers for a project and a config.
DopplerResponse(project, cfgName) ==
    IF project = "proj" /\ cfgName = "dev"
    THEN [fails |-> FALSE, data |-> DataA]
    ELSE [fails |-> TRUE, data |-> <<>>]

\* DopplerProvider.Fetch from the configuration map on.
DopplerFetch(cfg, keys, order) ==
    LET parsed == ParseConfig(cfg)
    IN  IF \/ parsed.err
           \/ parsed.Project.s = ""
           \/ parsed.Config.s = ""
           \/ Getenv("DOPPLER_TOKEN") = ""
        THEN [err |-> TRUE, kvs |-> <<>>]
        ELSE Fetch("doppler",
                   DopplerResponse(parsed.Project.s, parsed.Config.s),
                   keys, order)

\* The configurations of the one provider of this part of the model.
ChildProviderConfigs ==
    {("project" :> CStr(p)) @@ ("config" :> CStr("dev")) @@ h :
        p \in {"proj", "$P", "${Q}"},
        h \in {<<>>, "api_host" :> CStr("h1"), "api_host" :> CInt(1)}}

\* Collect over one Doppler provider: expand, add the tokens, fetch, merge.
CollectOne(cfg, keys, t, order) ==
    LET effective == InjectTokens(ExpandConfigTemplates(cfg), t)
        r == DopplerFetch(effective, keys, order)
    IN  IF r.err
        THEN [err |-> TRUE, secrets |-> <<>>, effective |-> effective]
        ELSE [err |-> FALSE, secrets |-> Merge(<<>>, r.kvs),
              effective |-> effective]

\* for key, value := range secrets { env = append(env, key=value) }
RECURSIVE AppendSecrets(_, _, _)
AppendSecrets(env, secrets, order) ==
    IF order = <<>> THEN env
    ELSE AppendSecrets(Append(env, [key |-> Head(order),
                                    value |-> secrets[Head(order)]]),
                       secrets, Tail(order))

\* A mutant of RunnerEnv: the effective provider configuration is exported
\* as well.
RunnerEnvWithConfig(resetEnv, secrets, order) ==
    AppendSecrets(IF resetEnv THEN <<>> ELSE Environ, secrets, order)
        \o [i \in 1..Cardinality(DOMAIN child.effective \cap ReservedKeys) |->
               LET k == SortedKeys(DOMAIN child.effective \cap ReservedKeys)[i]
               IN  [key |-> k, value |-> child.effective[k].s]]

\* Runner.Run: the environment of the child of `sstart run`.
RunnerEnv(resetEnv, secrets, order) ==
    AppendSecrets(IF resetEnv THEN <<>> ELSE Environ, secrets, order)

\* A mutant of BuildEnvironment: the secrets come first.
BuildEnvironmentSecretsFirst(inherit, secrets, order) ==
    AppendSecrets(<<>>, secrets, order) \o (IF inherit THEN Environ ELSE <<>>)

\* buildEnvironment: the environment of the children of `sstart mcp`.
BuildEnvironment(inherit, secrets, order) ==
    AppendSecrets(IF inherit THEN Environ ELSE <<>>, secrets, order)

\* What the started process finds for a name in cmd.Env: os/exec keeps the
\* last entry of a name, "" when there is none.
ChildGetenv(env, name) ==
    IF \E i \in DOMAIN env : env[i].key = name
    THEN env[CHOOSE i \in DOMAIN env :
                 env[i].key = name
                 /\ \A j \in (i + 1)..Len(env) : env[j].key # name].value
    ELSE ""

NoChild == [pc |-> "idle", cfg |-> <<>>, keys |-> <<>>, order |-> <<>>,
            effective |-> <<>>, err |-> FALSE, secrets |-> <<>>,
            cmd |-> "", inherit |-> FALSE, env |-> <<>>]

\* collector.Collect as `run` and `mcp` call it.
ChildCollect(cfg, keys, order) ==
    /\ child.pc \in {"idle", "started", "failed"}
    /\ LET r == CollectOne(cfg, keys, ssoTokens, order)
       IN  child' = [NoChild EXCEPT
                        !.pc = IF r.err THEN "failed" ELSE "collected",
                        !.cfg = cfg, !.keys = keys, !.order = order,
                        !.effective = r.effective, !.err = r.err,
                        !.secrets = r.secrets]
    /\ UNCHANGED <<ssoTokens, outsideChild>>

\* Runner.Run after Collect: the child is started with cmd.Env = env.
RunnerRun(resetEnv, order) ==
    /\ child.pc = "collected"
    /\ child' = [child EXCEPT !.pc = "started", !.cmd = "run",
                              !.inherit = ~resetEnv,
                              !.env = RunnerEnv(resetEnv, child.secrets,
                                                order)]
    /\ UNCHANGED <<ssoTokens, outsideChild>>

\* mcpCmd after Collect: the downstream servers are given env.
McpStart(inherit, order) ==
    /\ child.pc = "collected"
    /\ child' = [child EXCEPT !.pc = "started", !.cmd = "mcp",
                              !.inherit = inherit,
                              !.env = BuildEnvironment(inherit, child.secrets,
                                                       order)]
    /\ UNCHANGED <<ssoTokens, outsideChild>>

\* Between two invocations the operator's tokens are renewed.
RenewTokens(t) ==
    /\ child.pc \in {"idle", "started", "failed"}
    /\ ssoTokens.present /\ t.present /\ t # ssoTokens
    /\ ssoTokens' = t
    /\ UNCHANGED <<child, outsideChild>>

(***************************************************************************)
(* The JSON-RPC proxy of `sstart mcp`.                                     *)
(*                                                                         *)
(* A request id on the wire is a JSON string [t |-> "str", s |-> ...] or   *)
(* a JSON integer [t |-> "num", big |-> ..., n |-> ...] that stands for n, *)
(* or for 2^53 + n when big.  A tool name is a sequence of segments in     *)
(* which "/" is a segment of its own: "m2/t" is <<"m2", "/", "t">>.        *)
(* The host and the children exchange                                      *)
(*   [id, method, name]    a request ("tools/call", "tools/list", "ping")  *)
(*   [id, error, result]   a response: a result, or a JSON-RPC error       *)
(* hostSent and childIn keep every message of a pipe; childOut holds the   *)
(* responses a child wrote that the proxy has not read yet.                *)
(***************************************************************************)
MethodNotFound == -32601
InternalError == -32603

\* JSONRPCMessage.Error: nil, or an error with its code.
NoError == [isNil |-> TRUE, code |-> 0]
ErrorOf(code) == [isNil |-> FALSE, code |-> code]

StrID(s) == [t |-> "str", s |-> s]
NumID(n) == [t |-> "num", big |-> FALSE, n |-> n]
BigID(n) == [t |-> "num", big |-> TRUE, n |-> n]

\* The float64 nearest to 2^53 + n, for n well below 2^53: an even number,
\* ties going to the even significand.
RoundToFloat64(n) ==
    IF n % 2 = 0 THEN n
    ELSE IF ((n - 1) \div 2) % 2 = 0 THEN n - 1 ELSE n + 1

\* RequestID.UnmarshalJSON: json.Unmarshal into an interface{} turns a
\* JSON number into a float64 and a JSON string into a string.
UnmarshalID(wire) ==
    IF wire.t = "num" /\ wire.big
    THEN [t |-> "float64", big |-> TRUE, n |-> RoundToFloat64(wire.n)]
    ELSE IF wire.t = "num"
         THEN [t |-> "float64", big |-> FALSE, n |-> wire.n]
         ELSE [t |-> "string", s |-> wire.s]

\* RequestID.MarshalJSON: an integral float64 below 1e21 is written in
\* digits, an int as it is.
MarshalID(id) ==
    IF id.t = "string" THEN StrID(id.s)
    ELSE [t |-> "num", big |-> id.big, n |-> id.n]

\* The id the proxy gives the k-th request it sends to a child.
ChildID(k) == [t |-> "int", big |-> FALSE, n |-> k]

\* The configured children, in configuration order, and their tools.
ChildOrder == <<"m1", "m2">>
Children == Range(ChildOrder)
ToolsOf == [m1 |-> <<(<<"t">>)>>,
            m2 |-> <<(<<"t">>), <<"u", "/", "v">>>>]

\* The name under which the host sees tool `raw` of child c.
Namespaced(c, raw) == <<c, "/">> \o raw

\* The position of the first "/" of a name, 0 if it has none.
FirstSlash(name) ==
    IF \E i \in DOMAIN name : name[i] = "/"
    THEN CHOOSE i \in DOMAIN name :
             name[i] = "/" /\ \A j \in 1..(i - 1) : name[j] # "/"
    ELSE 0

\* A mutant of RouteTarget: the call goes to the first child that has a
\* tool of the raw name.
RouteTargetByTool(name) ==
    LET i == FirstSlash(name)
        raw == SubSeq(name, i + 1, Len(name))
        has == {k \in DOMAIN ChildOrder :
                   raw \in Range(ToolsOf[ChildOrder[k]])}
    IN  IF i = 0 \/ has = {}
        THEN [found |-> FALSE, child |-> "", name |-> <<>>]
        ELSE [found |-> TRUE,
              child |-> ChildOrder[CHOOSE k \in has : \A j \in has : k <= j],
              name |-> raw]

\* The child a namespaced name is routed to and the name it is given.
RouteTarget(name) ==
    LET i == FirstSlash(name)
    IN  IF i = 0 \/ SubSeq(name, 1, i - 1) \notin {<<c>> : c \in Children}
        THEN [found |-> FALSE, child |-> "", name |-> <<>>]
        ELSE [found |-> TRUE, child |-> name[1],
              name |-> SubSeq(name, i + 1, Len(name))]

\* The aggregated tool list: every tool of every child, namespaced.
RECURSIVE AggregatedTools(_)
AggregatedTools(order) ==
    IF order = <<>> THEN <<>>
    ELSE [i \in DOMAIN ToolsOf[Head(order)] |->
              Namespaced(Head(order), ToolsOf[Head(order)][i])]
             \o AggregatedTools(Tail(order))

\* What child c answers to a tools/call: its own output for that call.
ChildResult(c, id, name) ==
    [t |-> "content", tools |-> <<>>, by |-> c, req |-> id, name |-> name]

\* The results the proxy makes itself: of ping, and of tools/list.
EmptyResult == [t |-> "empty", tools |-> <<>>, by |-> "", req |-> 0,
                name |-> <<>>]
ToolsResult(tools) == [t |-> "tools", tools |-> tools, by |-> "", req |-> 0,
                       name |-> <<>>]

\* The host's requests: ids of either JSON type, small and beyond 2^53.
HostIDs == {NumID(1), NumID(2), StrID("a"), BigID(1)}
HostCalls == {<<"m1", "/", "t">>, <<"m2", "/", "t">>,
              <<"m2", "/", "u", "/", "v">>, <<"zz", "/", "t">>, <<"t">>}
HostRequests ==
    {[id |-> id, method |-> "tools/call", name |-> n] :
        id \in HostIDs, n \in HostCalls}
    \cup {[id |-> id, method |-> m, name |-> <<>>] :
        id \in HostIDs, m \in {"tools/list", "ping"}}

\* A response of the proxy on the host transport.
Respond(id, error, result) ==
    [id |-> MarshalID(id), error |-> error, result |-> result]

\* The host sends a request with an id it has not used; the proxy reads
\* it and answers it itself or forwards it to the child it names.
HostRequest(req) ==
    /\ Len(hostSent) < MaxRequests
    /\ \A i \in DOMAIN hostSent : hostSent[i].id # req.id
    /\ hostSent' = Append(hostSent, req)
    /\ LET id == UnmarshalID(req.id)
           to == RouteTarget(req.name)
       IN  CASE req.method = "ping" ->
                  /\ hostOut' = Append(hostOut,
                                    Respond(id, NoError, EmptyResult))
                  /\ UNCHANGED <<nextChildId, table, childIn, routed>>
             [] req.method = "tools/list" ->
                  /\ hostOut' = Append(hostOut,
                                    Respond(id, NoError,
                                        ToolsResult(
                                            AggregatedTools(ChildOrder))))
                  /\ UNCHANGED <<nextChildId, table, childIn, routed>>
             [] req.method = "tools/call" /\ ~to.found ->
                  /\ hostOut' = Append(hostOut,
                                    Respond(id, ErrorOf(MethodNotFound),
                                            EmptyResult))
                  /\ UNCHANGED <<nextChildId, table, childIn, routed>>
             [] /\ req.method = "tools/call" /\ to.found
                /\ childState[to.child] = "failed" ->
                  /\ hostOut' = Append(hostOut,
                                    Respond(id, ErrorOf(InternalError),
                                            EmptyResult))
                  /\ UNCHANGED <<nextChildId, table, childIn, routed>>
             [] /\ req.method = "tools/call" /\ to.found
                /\ childState[to.child] # "failed" ->
                  LET k == nextChildId[to.child] + 1
                  IN  /\ nextChildId' =
                             [nextChildId EXCEPT ![to.child] = k]
                      /\ table' = table \cup
                             {[child |-> to.child, childReqId |-> k,
                               hostReqId |-> id,
                               request |-> Len(hostSent) + 1]}
                      /\ routed' = routed \cup
                             {[child |-> to.child, childReqId |-> k,
                               hostReqId |-> id,
                               request |-> Len(hostSent) + 1]}
                      /\ childIn' =
                             [childIn EXCEPT ![to.child] =
                                 Append(@, [id |-> MarshalID(ChildID(k)),
                                            method |-> "tools/call",
                                            name |-> to.name])]
                      /\ UNCHANGED hostOut
    /\ UNCHANGED <<childOut, answered, childState, outsideProxy>>

\* A child answers one of the requests it has read, in any order.
ChildAnswers(c, i) ==
    /\ childState[c] = "running"
    /\ i \in DOMAIN childIn[c]
    /\ i \notin answered[c]
    /\ answered' = [answered EXCEPT ![c] = @ \cup {i}]
    /\ childOut' = [childOut EXCEPT ![c] =
                       Append(@, [id |-> childIn[c][i].id, error |-> NoError,
                                  result |-> ChildResult(c, childIn[c][i].id.n,
                                                         childIn[c][i].name)])]
    /\ UNCHANGED <<nextChildId, table, childIn, hostOut, hostSent, routed,
                   childState, outsideProxy>>

\* The id of the response that goes to the host.
ResponseID(entry, msg) == entry.hostReqId

\* The dispatcher reads the next response of child c, finds the host
\* request in the table, and emits the response under the host's id.
DispatchResponse(c) ==
    /\ childOut[c] # <<>>
    /\ LET msg == Head(childOut[c])
           hit == {e \in table : /\ e.child = c
                                  /\ ChildID(e.childReqId).n
                                         = UnmarshalID(msg.id).n}
       IN  /\ childOut' = [childOut EXCEPT ![c] = Tail(@)]
           /\ IF hit = {}
              THEN UNCHANGED <<table, hostOut>>
              ELSE LET entry == CHOOSE e \in hit : TRUE
                   IN  /\ table' = table \ {entry}
                       /\ hostOut' = Append(hostOut,
                              Respond(ResponseID(entry, msg), msg.error,
                                      msg.result))
    /\ UNCHANGED <<nextChildId, childIn, answered, hostSent, routed,
                   childState, outsideProxy>>

(***************************************************************************)
(* The name space of the proxy.                                            *)
(*                                                                         *)
(* A child id and a raw name are sequences of segments, as a tool name     *)
(* is: the id "a/b" is <<"a", "/", "b">>.  The configuration asks of the   *)
(* id of a server that it is given and unique.  A child may declare any    *)
(* name: tool names and resource URIs hold slashes at will.                *)
(***************************************************************************)
\* The ids a configuration may give its servers, and the raw names a child
\* may declare.
ServerIDs == {<<>>, <<"a">>, <<"b">>, <<"a", "/", "b">>}
RawNames == {<<"t">>, <<"u">>, <<"b", "/", "t">>}

\* mcp.servers[].id: required, unique.
ValidServers(ids) ==
    /\ \A i \in DOMAIN ids : ids[i] # <<>>
    /\ \A i, j \in DOMAIN ids : i # j => ids[i] # ids[j]

\* The name under which the host sees name `raw` of the child `id`.
NamespacedName(id, raw) == id \o <<"/">> \o raw

\* The aggregated list: every declared name of every child, namespaced.
RECURSIVE AggregateNames(_, _)
AggregateNames(ids, declared) ==
    IF ids = <<>> THEN <<>>
    ELSE [i \in DOMAIN Head(declared) |->
              NamespacedName(Head(ids), Head(declared)[i])]
             \o AggregateNames(Tail(ids), Tail(declared))

\* The configuration is loaded: its servers are accepted or refused.
LoadServers(ids) ==
    /\ nsServers = <<>>
    /\ ValidServers(ids)
    /\ nsServers' = ids
    /\ nsDeclared' = [i \in DOMAIN ids |-> <<>>]
    /\ UNCHANGED <<nsListed, outsideNames>>

\* During the handshake child i declares its tools (resources, prompts).
ChildDeclares(i, raws) ==
    /\ i \in DOMAIN nsServers
    /\ nsDeclared[i] = <<>>
    /\ raws # <<>>
    /\ nsDeclared' = [nsDeclared EXCEPT ![i] = raws]
    /\ UNCHANGED <<nsServers, nsListed, outsideNames>>

\* tools/list (resources/list, prompts/list): the aggregated list.
ListNames ==
    /\ nsServers # <<>>
    /\ nsListed' = AggregateNames(nsServers, nsDeclared)
    /\ UNCHANGED <<nsServers, nsDeclared, outsideNames>>

(***************************************************************************)
(* Failure of a child of the proxy.                                        *)
(*                                                                         *)
(* A child that closes its stdout answers no more.  What it wrote before   *)
(* is still read; then the reader of the child meets the end of the pipe,  *)
(* the child is marked failed and its outstanding requests are completed   *)
(* with an internal error.  A failed child is not started again.           *)
(***************************************************************************)
\* The entries of the table in the order of their child request ids.
RECURSIVE ByChildReqId(_)
ByChildReqId(entries) ==
    IF entries = {} THEN <<>>
    ELSE LET first == CHOOSE e \in entries :
                          \A o \in entries : e.childReqId <= o.childReqId
         IN  <<first>> \o ByChildReqId(entries \ {first})

\* A mutant of FailOutstanding: the outstanding requests are forgotten.
FailOutstandingSilently(entries) == <<>>

\* The responses that complete the outstanding requests of a failed child.
FailOutstanding(entries) ==
    [i \in 1..Cardinality(entries) |->
        Respond(ByChildReqId(entries)[i].hostReqId, ErrorOf(InternalError),
                EmptyResult)]

\* A child closes its stdout (it exits, or crashes).
ChildCloses(c) ==
    /\ childState[c] = "running"
    /\ childState' = [childState EXCEPT ![c] = "closed"]
    /\ UNCHANGED <<nextChildId, table, childIn, childOut, answered, hostSent,
                   hostOut, routed, outsideProxy>>

\* The reader of child c has read all the child wrote and meets EOF.
ReaderEOF(c) ==
    /\ childState[c] = "closed"
    /\ childOut[c] = <<>>
    /\ childState' = [childState EXCEPT ![c] = "failed"]
    /\ LET mine == {e \in table : e.child = c}
       IN  /\ hostOut' = hostOut \o FailOutstanding(mine)
           /\ table' = table \ mine
    /\ UNCHANGED <<nextChildId, childIn, childOut, answered, hostSent, routed,
                   outsideProxy>>

(***************************************************************************)
(* mcp.StdioTransport                                                      *)
(*                                                                         *)
(* A byte stream is a sequence of tokens: "{1}", "{2}", ... stand for the  *)
(* JSON text of message 1, 2, ... (a text without a newline), "{bad" for   *)
(* text that is not JSON, and " ", "\t", "\r", "\n" for themselves.  A     *)
(* message is its number.  A call that returned is                         *)
(*   [op |-> ..., msg |-> ..., err |-> ..., closed |-> ..., read |-> ...,  *)
(*    wrote |-> ...]                                                       *)
(* with err "" for nil, closed the value of t.closed when the call began,  *)
(* and read, wrote the number of bytes it took from the reader and gave    *)
(* to the writer.                                                          *)
(***************************************************************************)
Messages == 1..2
TextOf == [m \in Messages |-> IF m = 1 THEN "{1}" ELSE "{2}"]
Whitespace == {" ", "\t", "\r", "\n"}
Bytes == {"{1}", "{2}", "{bad", " ", "\r", "\n"}

\* trimNewline: one trailing LF is removed, then one trailing CR.
TrimNewline(data) ==
    LET a == IF Len(data) > 0 /\ data[Len(data)] = "\n"
             THEN SubSeq(data, 1, Len(data) - 1) ELSE data
    IN  IF Len(a) > 0 /\ a[Len(a)] = "\r"
        THEN SubSeq(a, 1, Len(a) - 1) ELSE a

\* json.Unmarshal(line, &msg): white space around the value is skipped;
\* nothing but white space, text that is not JSON, or text after the value
\* is an error.
Unmarshal(line) ==
    LET text == SelectSeq(line, LAMBDA b : b \notin Whitespace)
    IN  IF Len(text) = 1 /\ \E m \in Messages : TextOf[m] = text[1]
        THEN [err |-> "", msg |-> CHOOSE m \in Messages : TextOf[m] = text[1]]
        ELSE [err |-> "unmarshal", msg |-> 0]

\* json.Marshal(msg)
Marshal(msg) == <<TextOf[msg]>>

\* The position of the first LF of the input, 0 if it has none.
FirstNewline(input) ==
    IF \E i \in DOMAIN input : input[i] = "\n"
    THEN CHOOSE i \in DOMAIN input :
             input[i] = "\n" /\ \A j \in 1..(i - 1) : input[j] # "\n"
    ELSE 0

\* ReadMessage on an open transport: ReadBytes('\n'); at the end of the
\* input what was read is dropped and io.EOF returned; an empty line makes
\* ReadMessage call itself; any other line is unmarshalled.
RECURSIVE ReadFrom(_)
ReadFrom(input) ==
    LET n == FirstNewline(input)
        line == TrimNewline(SubSeq(input, 1, n))
        rest == SubSeq(input, n + 1, Len(input))
    IN  IF n = 0
        THEN [err |-> "EOF", msg |-> 0, rest |-> <<>>]
        ELSE IF Len(line) = 0
             THEN ReadFrom(rest)
             ELSE Unmarshal(line) @@ [rest |-> rest]

CallReturned(op, msg, err, read, wrote) ==
    [op |-> op, msg |-> msg, err |-> err, closed |-> tClosed, read |-> read,
     wrote |-> wrote]

NotWriting == [pc |-> "idle", msg |-> 0]

\* A mutant of ReadMessage: t.closed is not looked at.
ReadMessageUnchecked ==
    /\ Len(tCalls) < MaxCalls
    /\ LET r == ReadFrom(tIn)
       IN  /\ tIn' = r.rest
           /\ tCalls' = Append(tCalls,
                            CallReturned("read", r.msg, r.err,
                                         Len(tIn) - Len(r.rest), 0))
    /\ UNCHANGED <<tInput, tOut, tClosed, tWriters, outsideTransport>>

\* StdioTransport.ReadMessage
ReadMessage ==
    /\ Len(tCalls) < MaxCalls
    /\ IF tClosed
       THEN /\ tCalls' = Append(tCalls, CallReturned("read", 0, "closed", 0, 0))
            /\ UNCHANGED tIn
       ELSE LET r == ReadFrom(tIn)
            IN  /\ tIn' = r.rest
                /\ tCalls' = Append(tCalls,
                                 CallReturned("read", r.msg, r.err,
                                          Len(tIn) - Len(r.rest), 0))
    /\ UNCHANGED <<tInput, tOut, tClosed, tWriters, outsideTransport>>

\* StdioTransport.WriteMessage, run without interruption.
WriteMessage(msg) ==
    /\ Len(tCalls) < MaxCalls
    /\ \A g \in Goroutines : tWriters[g] = NotWriting
    /\ IF tClosed
       THEN /\ tCalls' = Append(tCalls, CallReturned("write", msg, "closed", 0, 0))
            /\ UNCHANGED tOut
       ELSE /\ tOut' = tOut \o Marshal(msg) \o <<"\n">>
            /\ tCalls' = Append(tCalls,
                             CallReturned("write", msg, "", 0,
                                      Len(Marshal(msg)) + 1))
    /\ UNCHANGED <<tInput, tIn, tClosed, tWriters, outsideTransport>>

\* StdioTransport.Close
Close ==
    /\ Len(tCalls) < MaxCalls
    /\ tClosed' = TRUE
    /\ tCalls' = Append(tCalls, CallReturned("close", 0, "", 0, 0))
    /\ UNCHANGED <<tInput, tIn, tOut, tWriters, outsideTransport>>

\* WriteMessage step by step, for goroutines that call it at the same time.
\* The writer takes every byte it is given.
\*
\* The closed test and json.Marshal.
WriteBegin(g, msg) ==
    /\ tWriters[g].pc = "idle"
    /\ Len(tCalls) + Cardinality({h \in Goroutines : tWriters[h].pc # "idle"})
           < MaxCalls
    /\ IF tClosed
       THEN /\ tCalls' = Append(tCalls,
                             CallReturned("write", msg, "closed", 0, 0))
            /\ UNCHANGED tWriters
       ELSE /\ tWriters' = [tWriters EXCEPT ![g] = [pc |-> "marshalled",
                                                    msg |-> msg]]
            /\ UNCHANGED tCalls
    /\ UNCHANGED <<tInput, tIn, tOut, tClosed, outsideTransport>>

\* t.writeMu is held from Lock to the deferred Unlock.
WriteMuHeld == \E g \in Goroutines : tWriters[g].pc \in {"locked", "data"}

\* A mutant of WriteLock: the writes are not guarded by writeMu.
WriteLockFree(g) ==
    /\ tWriters[g].pc = "marshalled"
    /\ tWriters' = [tWriters EXCEPT ![g].pc = "locked"]
    /\ UNCHANGED <<tInput, tIn, tOut, tClosed, tCalls, outsideTransport>>

\* t.writeMu.Lock()
WriteLock(g) ==
    /\ tWriters[g].pc = "marshalled"
    /\ ~WriteMuHeld
    /\ tWriters' = [tWriters EXCEPT ![g].pc = "locked"]
    /\ UNCHANGED <<tInput, tIn, tOut, tClosed, tCalls, outsideTransport>>

\* t.writer.Write(data)
WriteData(g) ==
    /\ tWriters[g].pc = "locked"
    /\ tOut' = tOut \o Marshal(tWriters[g].msg)
    /\ tWriters' = [tWriters EXCEPT ![g].pc = "data"]
    /\ UNCHANGED <<tInput, tIn, tClosed, tCalls, outsideTransport>>

\* t.writer.Write([]byte("\n")), the deferred Unlock and the return.
WriteNewline(g) ==
    /\ tWriters[g].pc = "data"
    /\ tOut' = tOut \o <<"\n">>
    /\ tWriters' = [tWriters EXCEPT ![g] = NotWriting]
    /\ tCalls' = Append(tCalls,
                     [op |-> "write", msg |-> tWriters[g].msg, err |-> "",
                      closed |-> FALSE, read |-> 0,
                      wrote |-> Len(Marshal(tWriters[g].msg)) + 1])
    /\ UNCHANGED <<tInput, tIn, tClosed, outsideTransport>>

\* Close while WriteMessage calls may be in progress.
CloseDuringWrites ==
    /\ Len(tCalls) + Cardinality({h \in Goroutines : tWriters[h].pc # "idle"})
           < MaxCalls
    /\ tClosed' = TRUE
    /\ tCalls' = Append(tCalls, CallReturned("close", 0, "", 0, 0))
    /\ UNCHANGED <<tInput, tIn, tOut, tWriters, outsideTransport>>

(***************************************************************************)
(* mcp.JSONRPCMessage                                                      *)
(*                                                                         *)
(* A message is [id, method, result, error]: id is NilID for a nil *ID     *)
(* (no "id" member, or "id": null on the wire), NullID for a RequestID     *)
(* holding nil, or an id; method is "" when absent; result is the raw      *)
(* JSON of the member, "" for a nil RawMessage; error is NoError for nil.  *)
(***************************************************************************)
NilID == [t |-> "nil"]
NullID == [t |-> "null"]

\* RequestID.IsNull
IsNull(id) == id = NullID

\* IsRequest, IsNotification, IsResponse
IsRequest(m) == m.method # "" /\ m.id # NilID /\ ~IsNull(m.id)
IsNotification(m) == m.method # "" /\ (m.id = NilID \/ IsNull(m.id))
IsResponse(m) == m.result # "" \/ ~m.error.isNil

MessageIDs == {NilID, NullID, NumID(1), StrID("a")}
MessageMethods == {"", "ping", "tools/call", "notifications/initialized"}
MessageResults == {"", "null", "{}"}
JSONRPCMessages ==
    [id : MessageIDs, method : MessageMethods, result : MessageResults,
     error : {NoError, ErrorOf(InternalError)}]

NoMessage == [id |-> NilID, method |-> "", result |-> "", error |-> NoError]
NotClassified == [done |-> FALSE, request |-> FALSE, notification |-> FALSE,
                  response |-> FALSE]

\* The three predicates are asked of the message.
Classify ==
    /\ ~clsOut.done
    /\ clsOut' = [done |-> TRUE, request |-> IsRequest(clsMsg),
                  notification |-> IsNotification(clsMsg),
                  response |-> IsResponse(clsMsg)]
    /\ UNCHANGED <<clsMsg, clsArgs, outsideClassify>>

(***************************************************************************)
(* Runner.Run from cmd.Start on: signal forwarding.                        *)
(*                                                                         *)
(* The child has been started with Setpgid.  A delivered signal is         *)
(* [sig |-> ..., during |-> ...], during telling whether the child had     *)
(* been started and not yet waited for when the signal came.  A forwarded  *)
(* signal carries, in addition, whether cmd.Wait had returned when it was  *)
(* sent.                                                                   *)
(***************************************************************************)
Signals == {"SIGINT", "SIGTERM", "SIGCHLD"}

\* sigChan := make(chan os.Signal, 1)
SigChanCap == 1

\* signal.Notify(sigChan), for every signal.
Notify ==
    /\ sigState = "started"
    /\ sigState' = "notified"
    /\ UNCHANGED <<sigChan, sigDelivered, sigForwarded, outsideSignal>>

\* A signal is delivered to sstart.  While sigChan is registered, os/signal
\* sends it without blocking: it is dropped when the buffer is full.
\* Before Notify and after Stop the signal has its default effect: SIGCHLD
\* is ignored, SIGINT and SIGTERM end sstart.
Deliver(sig) ==
    /\ sigState # "killed"
    /\ Len(sigDelivered) < MaxSignals
    /\ LET d == [sig |-> sig, during |-> sigState \in {"started", "notified"}]
       IN  /\ sigDelivered' = Append(sigDelivered, d)
           /\ sigChan' = IF sigState \in {"notified", "waited"}
                            /\ Len(sigChan) < SigChanCap
                         THEN Append(sigChan, d) ELSE sigChan
           /\ sigState' = IF sigState \in {"started", "stopped"}
                             /\ sig # "SIGCHLD"
                          THEN "killed" ELSE sigState
    /\ UNCHANGED <<sigForwarded, outsideSignal>>

\* The forwarding goroutine: one turn of `for sig := range sigChan`.
\* SIGCHLD is skipped; any other signal goes to the process group -pid.
Forward ==
    /\ sigState # "killed"
    /\ sigChan # <<>>
    /\ sigChan' = Tail(sigChan)
    /\ sigForwarded' =
           IF Head(sigChan).sig = "SIGCHLD" THEN sigForwarded
           ELSE Append(sigForwarded,
                       Head(sigChan) @@
                       [afterWait |-> sigState \in {"waited", "stopped"}])
    /\ UNCHANGED <<sigState, sigDelivered, outsideSignal>>

\* The child exits and cmd.Wait returns.
Wait ==
    /\ sigState = "notified"
    /\ sigState' = "waited"
    /\ UNCHANGED <<sigChan, sigDelivered, sigForwarded, outsideSignal>>

\* signal.Stop(sigChan); close(sigChan): what the channel holds stays in it.
Stop ==
    /\ sigState = "waited"
    /\ sigState' = "stopped"
    /\ UNCHANGED <<sigChan, sigDelivered, sigForwarded, outsideSignal>>

(***************************************************************************)
(* mcpCmd.RunE                                                             *)
(*                                                                         *)
(* An error is a string, "nil" for none.  proxy.Run and proxy.Stop are     *)
(* taken from the description of the proxy: Run returns nil when the host  *)
(* closes its end, context.Canceled when ctx is cancelled, and the error   *)
(* it met otherwise; Stop tears down every child.                          *)
(***************************************************************************)
McpServerIDs == {"m1", "m2", "m3"}
NotRun == [cause |-> "", err |-> "nil"]

\* SIGINT or SIGTERM: the signal goroutine calls cancel().
McpCancel ==
    /\ mcpPc \in {"idle", "running"}
    /\ ~mcpCancelled
    /\ mcpCancelled' = TRUE
    /\ UNCHANGED <<mcpPc, mcpServers, mcpRun, mcpStops, mcpErr, outsideMcp>>

\* RunE up to proxy.Run: config.Load, HasMCP and Collect may fail, and then
\* RunE returns their error; otherwise the proxy runs the configured
\* servers.
McpBegin(outcome, servers) ==
    /\ mcpPc = "idle"
    /\ IF outcome = "nil"
       THEN /\ mcpPc' = "running"
            /\ mcpServers' = [c \in servers |-> "running"]
            /\ UNCHANGED mcpErr
       ELSE /\ mcpPc' = "done"
            /\ mcpErr' = outcome
            /\ UNCHANGED mcpServers
    /\ UNCHANGED <<mcpCancelled, mcpRun, mcpStops, outsideMcp>>

\* A child of the running proxy exits by itself.
McpChildExits(c) ==
    /\ mcpPc = "running"
    /\ mcpServers[c] = "running"
    /\ mcpServers' = [mcpServers EXCEPT ![c] = "exited"]
    /\ UNCHANGED <<mcpPc, mcpCancelled, mcpRun, mcpStops, mcpErr, outsideMcp>>

\* proxy.Run returns: the host closed its end, ctx was cancelled, or Run met
\* an error.
ProxyRunReturns(cause) ==
    /\ mcpPc = "running"
    /\ cause = "cancel" => mcpCancelled
    /\ mcpRun' = [cause |-> cause,
                  err |-> CASE cause = "eof" -> "nil"
                            [] cause = "cancel" -> "context.Canceled"
                            [] OTHER -> "transport"]
    /\ mcpPc' = "returned"
    /\ UNCHANGED <<mcpCancelled, mcpServers, mcpStops, mcpErr, outsideMcp>>

\* proxy.Stop()
ProxyStop ==
    /\ mcpPc = "returned"
    /\ mcpStops' = mcpStops + 1
    /\ mcpServers' = [c \in DOMAIN mcpServers |->
                         IF mcpServers[c] = "running" THEN "stopped"
                         ELSE mcpServers[c]]
    /\ mcpPc' = "stopped"
    /\ UNCHANGED <<mcpCancelled, mcpRun, mcpErr, outsideMcp>>

\* A mutant of RunEResult: the error of Run is returned whatever it is.
RunEResultUnfiltered(err) == err

\* if err != nil && err != context.Canceled { return err }; return nil
RunEResult(err) ==
    IF err # "nil" /\ err # "context.Canceled" THEN err ELSE "nil"

\* RunE returns.
McpReturn ==
    /\ mcpPc = "stopped"
    /\ mcpErr' = RunEResult(mcpRun.err)
    /\ mcpPc' = "done"
    /\ UNCHANGED <<mcpCancelled, mcpServers, mcpRun, mcpStops, outsideMcp>>

(***************************************************************************)
(* expandTemplate on the function form.                                    *)
(*                                                                         *)
(* A text is a sequence of segments: [t |-> "text", s |-> ...] is plain    *)
(* text without "$", "{" and quotes; [t |-> "ref", s |-> N] is the text    *)
(* "$N"; [t |-> "get_env", name |-> X, default |-> Y] is the text          *)
(* {{ get_env(name="X", default="Y") }} with Y a text.  The value of an    *)
(* environment variable is a text of the first two kinds.                  *)
(***************************************************************************)
TplNames == {"X", "Z"}
TplText(s) == [t |-> "text", s |-> s]
TplRef(n) == [t |-> "ref", s |-> n]
TplGetEnv(x, y) == [t |-> "get_env", name |-> x, default |-> y]
TplValues == {<<>>, <<TplText("v")>>, <<TplRef("Z")>>}
Templates ==
    {pre \o <<TplGetEnv("X", y)>> \o post :
        pre \in {<<>>, <<TplText("pre-")>>}, y \in TplValues,
        post \in {<<>>, <<TplText("-post")>>}}

\* The characters of a text.
RECURSIVE TplString(_)
TplString(text) ==
    IF text = <<>> THEN ""
    ELSE LET h == Head(text)
         IN  (CASE h.t = "text" -> h.s
                [] h.t = "ref" -> "$" \o h.s
                [] OTHER -> "{{ get_env(name=\"" \o h.name \o "\", default=\""
                            \o TplString(h.default) \o "\") }}")
             \o TplString(Tail(text))

\* re.ReplaceAllStringFunc: the expression matches when name and default
\* hold at least one character each ([^"]+) and is then replaced by the
\* value of the variable if it is not empty, by the default otherwise.
RECURSIVE ReplaceGetEnv(_, _)
ReplaceGetEnv(text, env) ==
    IF text = <<>> THEN <<>>
    ELSE LET h == Head(text)
         IN  (IF h.t = "get_env" /\ h.name # "" /\ h.default # <<>>
              THEN IF env[h.name] # <<>> THEN env[h.name] ELSE h.default
              ELSE <<h>>)
             \o ReplaceGetEnv(Tail(text), env)

\* os.ExpandEnv: every $N of the string is replaced by the value of N.
RECURSIVE ExpandEnv(_, _)
ExpandEnv(text, env) ==
    IF text = <<>> THEN ""
    ELSE LET h == Head(text)
         IN  (IF h.t = "ref" THEN TplString(env[h.s]) ELSE TplString(<<h>>))
             \o ExpandEnv(Tail(text), env)

\* expandTemplate
ExpandTemplateText(template, env) == ExpandEnv(ReplaceGetEnv(template, env), env)

NotExpanded == [done |-> FALSE, s |-> ""]

\* expandTemplate is called on the template.
ExpandGetEnv ==
    /\ ~tplOut.done
    /\ tplOut' = [done |-> TRUE, s |-> ExpandTemplateText(tplIn, tplEnv)]
    /\ UNCHANGED <<tplEnv, tplIn, outsideTemplate>>

(***************************************************************************)
(* NewJSONRPCResponse and NewJSONRPCErrorResponse                          *)
(*                                                                         *)
(* The id argument is NilID for a nil interface, or an id.   The result    *)
(* argument is "" for a nil interface, otherwise the JSON text json.Marshal *)
(* gives for it ("null" for a nil pointer of some type).                   *)
(***************************************************************************)
\* NewRequestID: RequestID{value: v}; NilID as an argument is the nil
\* interface.
NewRequestID(v) == IF v = NilID THEN NullID ELSE v

\* NewJSONRPCResponse: a nil result leaves Result nil.
NewJSONRPCResponse(id, result) ==
    [id |-> NewRequestID(id), method |-> "", result |-> result,
     error |-> NoError]

\* NewJSONRPCErrorResponse
NewJSONRPCErrorResponse(id, code) ==
    [id |-> NewRequestID(id), method |-> "", result |-> "",
     error |-> ErrorOf(code)]

ResponseIDs == {NilID, NumID(1), NumID(2), StrID("a"), StrID("b"), BigID(1)}
ResponseResults == {"", "null", "{}", "{\"tools\":[]}", "{\"content\":[]}"}
NotBuilt == [fn |-> "", id |-> NilID, result |-> "", code |-> 0,
             data |-> FALSE]

\* A response is built, and replaces the message at hand.
BuildResponse(id, result) ==
    /\ clsArgs = NotBuilt
    /\ clsArgs' = [NotBuilt EXCEPT !.fn = "NewJSONRPCResponse", !.id = id,
                                   !.result = result]
    /\ clsMsg' = NewJSONRPCResponse(id, result)
    /\ UNCHANGED <<clsOut, outsideClassify>>

\* An error response is built, with or without data.
BuildErrorResponse(id, code, data) ==
    /\ clsArgs = NotBuilt
    /\ clsArgs' = [NotBuilt EXCEPT !.fn = "NewJSONRPCErrorResponse",
                                   !.id = id, !.code = code, !.data = data]
    /\ clsMsg' = NewJSONRPCErrorResponse(id, code)
    /\ UNCHANGED <<clsOut, outsideClassify>>

\* The built message is classified.
ClassifyBuilt ==
    /\ clsArgs # NotBuilt
    /\ Classify

(***************************************************************************)
(* expandConfigTemplates on nested configurations.                         *)
(***************************************************************************)
\* Values up to two containers deep: strings with and without a reference
\* to the environment, a number, and maps and lists of them.
ConfigLeaves == {CStr("$P"), CStr("x"), CInt(1)}
ConfigInner == {CMap("k" :> v) : v \in ConfigLeaves}
                   \cup {CList(<<v>>) : v \in ConfigLeaves}
ConfigValues == ConfigLeaves \cup ConfigInner
                    \cup {CMap("k" :> v) : v \in ConfigInner}
                    \cup {CList(<<v>>) : v \in ConfigInner}
NestedConfigs == {("a" :> v) @@ ("b" :> w) : v \in ConfigValues,
                                             w \in ConfigLeaves}

\* The provider's configuration is expanded before Fetch.
ExpandConfig ==
    /\ ~xOut.done
    /\ xOut' = [done |-> TRUE, cfg |-> ExpandConfigTemplates(xCfg)]
    /\ UNCHANGED <<xCfg, outsideExpand>>

(***************************************************************************)
(* Mask, Redact and escapeShell.  A string is the sequence of its bytes.   *)
(***************************************************************************)
NoText == [fn |-> "none", s |-> <<>>]

\* strings.Repeat of a one-byte string.
Repeat(c, n) == [i \in 1..n |-> c]

\* strings.ReplaceAll: the occurrences of old are replaced from left to
\* right without overlap; an empty old matches before every byte and at
\* the end.
RECURSIVE ReplaceAll(_, _, _)
ReplaceAll(s, old, new) ==
    IF old = <<>>
    THEN new \o (IF s = <<>> THEN <<>>
                 ELSE <<Head(s)>> \o ReplaceAll(Tail(s), old, new))
    ELSE IF Len(s) < Len(old) THEN s
    ELSE IF SubSeq(s, 1, Len(old)) = old
    THEN new \o ReplaceAll(SubSeq(s, Len(old) + 1, Len(s)), old, new)
    ELSE <<Head(s)>> \o ReplaceAll(Tail(s), old, new)

\* Mask without its second branch: a value of 5 to 8 bytes shows its last
\* two bytes as well.
MaskNoMiddle(value) ==
    IF Len(value) <= 4 THEN Repeat("*", 4)
    ELSE SubSeq(value, 1, 2) \o Repeat("*", 4)
             \o SubSeq(value, Len(value) - 1, Len(value))

Mask(value) ==
    IF Len(value) <= 4 THEN Repeat("*", 4)
    ELSE IF Len(value) <= 8 THEN SubSeq(value, 1, 2) \o Repeat("*", 4)
    ELSE SubSeq(value, 1, 2) \o Repeat("*", 4)
             \o SubSeq(value, Len(value) - 1, Len(value))

\* Redact, with the map of secrets given as the sequence of its values in
\* the order in which range visits them.
RECURSIVE Redact(_, _)
Redact(text, secrets) ==
    IF secrets = <<>> THEN text
    ELSE LET value == Head(secrets)
             result == IF Len(value) > 0
                       THEN ReplaceAll(text, value, Repeat("*", Len(value)))
                       ELSE text
         IN  Redact(result, Tail(secrets))

\* The orders in which range may visit a map with the values S.
RangeOrders(S) ==
    {o \in [1..Cardinality(S) -> S] :
        \A i, j \in DOMAIN o : i # j => o[i] # o[j]}

\* escapeShell that only encloses the value in single quotes.
escapeShellBare(s) == <<"'">> \o s \o <<"'">>

escapeShell(s) ==
    <<"'">> \o ReplaceAll(s, <<"'">>, <<"'", "\"", "'", "\"", "'">>)
            \o <<"'">>

MaskValues == SeqsUpTo({"a", "b"}, MaxChars)
ShellValues == SeqsUpTo({"a", "'", "\""}, MaxQuoted)
Texts == SeqsUpTo({"a", "b"}, MaxText)
SecretValues == {<<>>, <<"a">>, <<"b">>, <<"a", "b">>}

\* show prints Mask(value) for a collected value.
MaskValue ==
    /\ txtOut = NoText
    /\ txtOut' = [fn |-> "Mask", s |-> Mask(txtIn)]
    /\ UNCHANGED <<txtIn, txtSecrets, outsideText>>

\* env prints escapeShell(value) for a collected value.
EscapeValue ==
    /\ txtOut = NoText
    /\ txtOut' = [fn |-> "escapeShell", s |-> escapeShell(txtIn)]
    /\ UNCHANGED <<txtIn, txtSecrets, outsideText>>

\* Redact(text, secrets); the order of a range over a map is not specified.
RedactText ==
    /\ txtOut = NoText
    /\ \E o \in RangeOrders(txtSecrets) :
           txtOut' = [fn |-> "Redact", s |-> Redact(txtIn, o)]
    /\ UNCHANGED <<txtIn, txtSecrets, outsideText>>

(***************************************************************************)
(* One Fetch of the Doppler or of the Infisical provider, with the lines   *)
(* it logs and the requests it sends.  The value of an environment         *)
(* variable is the sequence of its bytes, <<>> when it is not set.         *)
(***************************************************************************)
NotFetched == [done |-> FALSE, err |-> FALSE, kvs |-> <<>>]

\* log.Printf of a line without argument, with a %s and with a %d or %v.
LogText(line) == [line |-> line, str |-> <<>>, num |-> 0]
LogStr(line, s) == [line |-> line, str |-> s, num |-> 0]
LogNum(line, n) == [line |-> line, str |-> <<>>, num |-> n]

\* The lines ensureClient logs for a credential after a failed login: its
\* length, then its first 8 bytes or, when it has no more, all of it.
LogCredential(name, v) ==
    <<LogNum(name \o " length: %d", Len(v)),
      IF Len(v) > 8 THEN LogStr(name \o " prefix: %s...", SubSeq(v, 1, 8))
      ELSE LogStr(name \o ": %s", v)>>

\* The lines ensureClient logs before it creates the client.
LogSiteURL(siteURL) ==
    <<IF siteURL # <<>> THEN LogStr("Using custom site URL: %s", siteURL)
      ELSE LogText("Using default site URL: https://app.infisical.com"),
      LogText("Creating Infisical client..."),
      LogStr("Attempting Universal Auth login to: %s", siteURL)>>

\* ensureClient that logs in before it looks at the credentials.
EnsureClientLoginFirst(env, loginOK) ==
    LET clientID == env["INFISICAL_UNIVERSAL_AUTH_CLIENT_ID"]
        secret == env["INFISICAL_UNIVERSAL_AUTH_CLIENT_SECRET"]
    IN  [err |-> clientID = <<>> \/ secret = <<>> \/ ~loginOK,
         log |-> <<LogText("Initializing Infisical client...")>>,
         requests |-> <<"UniversalAuthLogin">>]

\* InfisicalProvider.ensureClient on a provider without a client.
EnsureClient(env, loginOK) ==
    LET clientID == env["INFISICAL_UNIVERSAL_AUTH_CLIENT_ID"]
        secret == env["INFISICAL_UNIVERSAL_AUTH_CLIENT_SECRET"]
        siteURL == env["INFISICAL_SITE_URL"]
        start == <<LogText("Initializing Infisical client...")>>
        found == <<LogNum("Found INFISICAL_UNIVERSAL_AUTH_CLIENT_ID (length: %d)",
                          Len(clientID)),
                   LogNum("Found INFISICAL_UNIVERSAL_AUTH_CLIENT_SECRET (length: %d)",
                          Len(secret))>>
    IN  IF clientID = <<>> \/ secret = <<>>
        THEN [err |-> TRUE,
              log |-> start \o
                  <<LogText("ERROR: Missing required environment variables"),
                    LogNum("INFISICAL_UNIVERSAL_AUTH_CLIENT_ID is set: %v",
                           IF clientID # <<>> THEN 1 ELSE 0),
                    LogNum("INFISICAL_UNIVERSAL_AUTH_CLIENT_SECRET is set: %v",
                           IF secret # <<>> THEN 1 ELSE 0)>>,
              requests |-> <<>>]
        ELSE IF ~loginOK
        THEN [err |-> TRUE,
              log |-> start \o found \o LogSiteURL(siteURL) \o
                  <<LogText("ERROR: Authentication failed"),
                    LogText("  Error: %v"),
                    LogStr("  Site URL: %s", siteURL)>>
                  \o LogCredential("  Client ID", clientID)
                  \o LogCredential("  Client Secret", secret),
              requests |-> <<"UniversalAuthLogin">>]
        ELSE [err |-> FALSE,
              log |-> start \o found \o LogSiteURL(siteURL) \o
                  <<LogText("Successfully authenticated")>>,
              requests |-> <<"UniversalAuthLogin">>]

\* parseConfig of the Infisical provider: the three string fields of
\* InfisicalConfig; a field that is not a JSON string fails json.Unmarshal.
InfisicalParseConfig(cfg) ==
    [err |-> \E k \in {"project_id", "environment", "path"} :
                 ConfigField(cfg, k).t # "str",
     ProjectID |-> ConfigField(cfg, "project_id"),
     Environment |-> ConfigField(cfg, "environment"),
     Path |-> ConfigField(cfg, "path")]

\* InfisicalProvider.Fetch on a new provider.
InfisicalFetch(cfg, env, loginOK, response, order) ==
    LET parsed == InfisicalParseConfig(cfg)
    IN  IF \/ parsed.err
           \/ parsed.ProjectID.s = ""
           \/ parsed.Environment.s = ""
           \/ parsed.Path.s = ""
        THEN [err |-> TRUE, kvs |-> <<>>, log |-> <<>>, requests |-> <<>>]
        ELSE LET c == EnsureClient(env, loginOK)
                 r == Fetch("infisical", response, <<>>, order)
             IN  IF c.err
                 THEN [err |-> TRUE, kvs |-> <<>>, log |-> c.log,
                       requests |-> c.requests]
                 ELSE [err |-> r.err, kvs |-> r.kvs, log |-> c.log,
                       requests |-> Append(c.requests, "Secrets.List")]

\* DopplerProvider.Fetch as a function of DOPPLER_TOKEN, with the request
\* it sends.
DopplerFetchEnv(cfg, env, response, order) ==
    LET parsed == ParseConfig(cfg)
        r == Fetch("doppler", response, <<>>, order)
    IN  IF \/ parsed.err
           \/ parsed.Project.s = ""
           \/ parsed.Config.s = ""
           \/ env["DOPPLER_TOKEN"] = <<>>
        THEN [err |-> TRUE, kvs |-> <<>>, log |-> <<>>, requests |-> <<>>]
        ELSE [err |-> r.err, kvs |-> r.kvs, log |-> <<>>,
              requests |-> <<"GET secrets/download">>]

\* The value of a credential of n bytes, all different.
Credential(n) == [i \in 1..n |-> i]

\* The environments: every length of the client secret and of the Doppler
\* token up to MaxSecret, a client id, a site URL or none.
FetchEnvs ==
    {("DOPPLER_TOKEN" :> Credential(n))
        @@ ("INFISICAL_UNIVERSAL_AUTH_CLIENT_SECRET" :> Credential(n))
        @@ ("INFISICAL_UNIVERSAL_AUTH_CLIENT_ID" :> id)
        @@ ("INFISICAL_SITE_URL" :> url) :
        n \in 0..MaxSecret, id \in {<<>>, <<101, 102>>},
        url \in {<<>>, <<201>>}}

\* The config maps: each required field absent or present, and a project
\* that is not a string.
FetchConfigs(kind) ==
    IF kind = "doppler"
    THEN {p @@ c : p \in {<<>>, "project" :> CStr("proj"),
                          "project" :> CInt(1)},
                   c \in {<<>>, "config" :> CStr("dev")}}
    ELSE {p @@ e @@ q : p \in {<<>>, "project_id" :> CStr("proj"),
                               "project_id" :> CInt(1)},
                        e \in {<<>>, "environment" :> CStr("dev")},
                        q \in {<<>>, "path" :> CStr("/")}}

\* What the backend answers to the request for the secrets.
FetchResponses == {[fails |-> TRUE, data |-> <<>>],
                   [fails |-> FALSE, data |-> DataA]}

\* Collect calls Fetch on a new Doppler provider.
DopplerFetchCall ==
    /\ pvKind = "doppler"
    /\ ~pvRet.done
    /\ \E response \in FetchResponses, order \in {<<"A", "B">>, <<"B", "A">>} :
           LET r == DopplerFetchEnv(pvCfg, pvEnv, response, order)
           IN  /\ pvLog' = r.log
               /\ pvRequests' = r.requests
               /\ pvRet' = [done |-> TRUE, err |-> r.err, kvs |-> r.kvs]
    /\ UNCHANGED <<pvKind, pvCfg, pvEnv, outsideFetch>>

\* Collect calls Fetch on a new Infisical provider.
InfisicalFetchCall ==
    /\ pvKind = "infisical"
    /\ ~pvRet.done
    /\ \E loginOK \in BOOLEAN, response \in FetchResponses,
          order \in {<<"A", "B">>, <<"B", "A">>} :
           LET r == InfisicalFetch(pvCfg, pvEnv, loginOK, response, order)
           IN  /\ pvLog' = r.log
               /\ pvRequests' = r.requests
               /\ pvRet' = [done |-> TRUE, err |-> r.err, kvs |-> r.kvs]
    /\ UNCHANGED <<pvKind, pvCfg, pvEnv, outsideFetch>>

(***************************************************************************)
(* Initial states and specifications.                                      *)
(***************************************************************************)
CollectorIdle ==
    /\ cPc = "idle"
    /\ cArgs = <<>>
    /\ cIds = <<>>
    /\ cIdx = 1
    /\ cSecrets = <<>>
    /\ cLog = <<>>
    /\ cRet = NoRet
    /\ cPrev = NoPrev
    /\ cGap = 0

KeyIdle ==
    /\ kCur = NoKeyCall
    /\ kPrev = NoKeyCall

OIDCIdle ==
    /\ clientSecret = ""
    /\ tokens = NoTokens
    /\ issued = 0
    /\ auth = NotRunning

NamesIdle ==
    /\ nsServers = <<>>
    /\ nsDeclared = <<>>
    /\ nsListed = <<>>

TransportIdle ==
    /\ tInput = <<>>
    /\ tIn = <<>>
    /\ tOut = <<>>
    /\ tClosed = FALSE
    /\ tCalls = <<>>
    /\ tWriters = [g \in Goroutines |-> NotWriting]

ClassifyIdle ==
    /\ clsMsg = NoMessage
    /\ clsOut = NotClassified
    /\ clsArgs = NotBuilt

SignalIdle ==
    /\ sigState = "started"
    /\ sigChan = <<>>
    /\ sigDelivered = <<>>
    /\ sigForwarded = <<>>

McpIdle ==
    /\ mcpPc = "idle"
    /\ mcpCancelled = FALSE
    /\ mcpServers = <<>>
    /\ mcpRun = NotRun
    /\ mcpStops = 0
    /\ mcpErr = "nil"

TemplateIdle ==
    /\ tplEnv = [n \in TplNames |-> <<>>]
    /\ tplIn = <<>>
    /\ tplOut = NotExpanded

ExpandIdle ==
    /\ xCfg = <<>>
    /\ xOut = [done |-> FALSE, cfg |-> <<>>]

TextIdle ==
    /\ txtIn = <<>>
    /\ txtSecrets = {}
    /\ txtOut = NoText

FetchIdle ==
    /\ pvKind = ""
    /\ pvCfg = <<>>
    /\ pvEnv = <<>>
    /\ pvLog = <<>>
    /\ pvRequests = <<>>
    /\ pvRet = NotFetched

RoutingIdle ==
    /\ nextChildId = [c \in Children |-> 0]
    /\ table = {}
    /\ childIn = [c \in Children |-> <<>>]
    /\ childOut = [c \in Children |-> <<>>]
    /\ answered = [c \in Children |-> {}]
    /\ hostSent = <<>>
    /\ hostOut = <<>>
    /\ routed = {}
    /\ childState = [c \in Children |-> "running"]

ProxyIdle ==
    /\ RoutingIdle
    /\ TransportIdle
    /\ FetchIdle
    /\ TextIdle
    /\ ExpandIdle
    /\ TemplateIdle
    /\ McpIdle
    /\ SignalIdle
    /\ ClassifyIdle
    /\ NamesIdle

ChildIdle ==
    /\ ssoTokens = NoSSO
    /\ child = NoChild
    /\ ProxyIdle

CacheIdle ==
    /\ keyringTested = FALSE
    /\ keyringDisabled = FALSE
    /\ keyringItem = Absent
    /\ file = Absent
    /\ now = 0
    /\ lastOp = NoOp
    /\ lastSet = [k \in CacheKeys |-> NoSet]
    /\ goroutine = [g \in Goroutines |-> Returned]

\* NewCollector(cfg) over a loaded configuration and fixed backends.
Init ==
    /\ config \in Configs
    /\ backend \in Backends
    /\ backend["b"].fails =>
          \A i \in DOMAIN config.Providers :
              config.Providers[i].Kind \in Registered
    /\ CollectorIdle
    /\ KeyIdle
    /\ ChildIdle
    /\ OIDCIdle
    /\ CacheIdle

Next ==
    \/ \E providerIDs \in Filters : CollectCall(providerIDs)
    \/ CollectUnknown
    \/ CollectCreateFails
    \/ CollectFetch
    \/ CollectReturn
    \/ CollectorTick

Spec == Init /\ [][Next]_vars

\* GenerateCacheKey called on argument after argument.
InitKey ==
    /\ config = [Providers |-> <<>>]
    /\ backend = <<>>
    /\ CollectorIdle
    /\ KeyIdle
    /\ ChildIdle
    /\ OIDCIdle
    /\ CacheIdle

NextKey ==
    \E p \in KeyProviders, cfg \in KeyConfigs :
        GenerateCacheKeyCall(p[1], p[2], cfg)

SpecKey == InitKey /\ [][NextKey]_vars

\* cache.New over a keyring without a cache entry and a file that is
\* missing, is not JSON, or is JSON without a providers map.
InitCache ==
    /\ config = [Providers |-> <<>>]
    /\ backend = <<>>
    /\ CollectorIdle
    /\ KeyIdle
    /\ ChildIdle
    /\ OIDCIdle
    /\ keyringTested = FALSE
    /\ keyringDisabled = FALSE
    /\ keyringItem = Absent
    /\ file \in {Absent, Garbage, [kind |-> "json", providers |-> NilProviders]}
    /\ now = 0
    /\ lastOp = NoOp
    /\ lastSet = [k \in CacheKeys |-> NoSet]
    /\ goroutine = [g \in Goroutines |-> Returned]

NextCache ==
    \/ \E cacheKey \in CacheKeys : Get(cacheKey)
    \/ \E cacheKey \in CacheKeys, secrets \in SecretMaps : Set(cacheKey, secrets)
    \/ Clear
    \/ \E cacheKey \in CacheKeys : ClearProvider(cacheKey)
    \/ CleanExpired
    \/ Stats
    \/ Tick

SpecCache == InitCache /\ [][NextCache]_vars

\* Two goroutines calling Get and Set on one Cache whose keyring was
\* classified unusable, over a missing cache file.
InitRace ==
    /\ config = [Providers |-> <<>>]
    /\ backend = <<>>
    /\ CollectorIdle
    /\ KeyIdle
    /\ ChildIdle
    /\ OIDCIdle
    /\ keyringTested = TRUE
    /\ keyringDisabled = TRUE
    /\ keyringItem = Absent
    /\ file = Absent
    /\ now = 0
    /\ lastOp = NoOp
    /\ lastSet = [k \in CacheKeys |-> NoSet]
    /\ goroutine = [g \in Goroutines |-> Returned]

\* Each goroutine stores secrets of its own.
SecretsOf == [g1 |-> [KEY |-> "v1"], g2 |-> [KEY |-> "v2"]]

NextRace ==
    \/ \E g \in Goroutines, cacheKey \in CacheKeys :
           SetLoads(g, cacheKey, SecretsOf[g])
    \/ \E g \in Goroutines : SetSaves(g)
    \/ \E g \in Goroutines, cacheKey \in CacheKeys : GetLoads(g, cacheKey)
    \/ \E g \in Goroutines : GetSaves(g)
    \/ Tick

SpecRace == InitRace /\ [][NextRace]_vars

\* oidc.NewClient with or without a client secret, over an empty token
\* store; one invocation after another.
InitOIDC ==
    /\ config = [Providers |-> <<>>]
    /\ backend = <<>>
    /\ CollectorIdle
    /\ KeyIdle
    /\ ChildIdle
    /\ CacheIdle
    /\ clientSecret \in {"", "test-client-secret"}
    /\ tokens = NoTokens
    /\ issued = 0
    /\ auth = NotRunning

NextOIDC ==
    \/ \E forceAuth \in BOOLEAN : Invoke(forceAuth)
    \/ ClearTokens
    \/ LoadTokens
    \/ Refresh
    \/ ClientCredentials
    \/ PKCE
    \/ Expire

SpecOIDC == InitOIDC /\ [][NextOIDC]_vars

\* `sstart run` and `sstart mcp` invoked again and again, with or without
\* an OIDC block in the configuration.
InitChild ==
    /\ config = [Providers |-> <<>>]
    /\ backend = <<>>
    /\ CollectorIdle
    /\ KeyIdle
    /\ OIDCIdle
    /\ CacheIdle
    /\ ssoTokens \in SSOTokens
    /\ child = NoChild
    /\ ProxyIdle

NextChild ==
    \/ \E cfg \in ChildProviderConfigs, keys \in KeyMapsA,
          order \in Orders(DOMAIN DataA) : ChildCollect(cfg, keys, order)
    \/ \E resetEnv \in BOOLEAN, order \in Orders(DOMAIN child.secrets) :
           RunnerRun(resetEnv, order)
    \/ \E inherit \in BOOLEAN, order \in Orders(DOMAIN child.secrets) :
           McpStart(inherit, order)
    \/ \E t \in SSOTokens : RenewTokens(t)

SpecChild == InitChild /\ [][NextChild]_vars

\* mcp.NewProxy over two started children; the host sends requests and
\* the children answer them in any order.
InitProxy ==
    /\ config = [Providers |-> <<>>]
    /\ backend = <<>>
    /\ CollectorIdle
    /\ KeyIdle
    /\ OIDCIdle
    /\ CacheIdle
    /\ ChildIdle

NextProxy ==
    \/ \E req \in HostRequests : HostRequest(req)
    \/ \E c \in Children, i \in 1..MaxRequests : ChildAnswers(c, i)
    \/ \E c \in Children : DispatchResponse(c)

SpecProxy == InitProxy /\ [][NextProxy]_vars

\* A configuration with up to MaxServers servers is loaded, the children
\* declare up to MaxNames names each, and the host lists them.
InitNames ==
    /\ config = [Providers |-> <<>>]
    /\ backend = <<>>
    /\ CollectorIdle
    /\ KeyIdle
    /\ OIDCIdle
    /\ CacheIdle
    /\ ChildIdle

NextNames ==
    \/ \E ids \in SeqsUpTo(ServerIDs, MaxServers) \ {<<>>} : LoadServers(ids)
    \/ \E i \in 1..MaxServers, raws \in SeqsUpTo(RawNames, MaxNames) :
           ChildDeclares(i, raws)
    \/ ListNames

SpecNames == InitNames /\ [][NextNames]_vars

\* The proxy with children that may close their stdout, under pings and
\* calls of a tool of either child.  The readers
\* keep draining the pipes of the children: what a child wrote is
\* dispatched, and the end of a pipe is noticed.
FailRequests ==
    {req \in HostRequests :
        /\ req.id # BigID(1)
        /\ \/ req.method = "ping"
           \/ req.name \in {<<"m1", "/", "t">>, <<"m2", "/", "t">>}}

NextProxyFail ==
    \/ \E req \in FailRequests : HostRequest(req)
    \/ \E c \in Children, i \in 1..MaxRequests : ChildAnswers(c, i)
    \/ \E c \in Children : DispatchResponse(c)
    \/ \E c \in Children : ChildCloses(c)
    \/ \E c \in Children : ReaderEOF(c)

SpecProxyFail ==
    /\ InitProxy
    /\ [][NextProxyFail]_vars
    /\ \A c \in Children : WF_vars(DispatchResponse(c))
    /\ \A c \in Children : WF_vars(ReaderEOF(c))

\* NewStdioTransport over a reader that delivers up to MaxBytes bytes;
\* ReadMessage, WriteMessage and Close are called one after another.
InitTransport ==
    /\ config = [Providers |-> <<>>]
    /\ backend = <<>>
    /\ CollectorIdle
    /\ KeyIdle
    /\ OIDCIdle
    /\ CacheIdle
    /\ ssoTokens = NoSSO
    /\ child = NoChild
    /\ NamesIdle
    /\ RoutingIdle
    /\ FetchIdle
    /\ TextIdle
    /\ ExpandIdle
    /\ TemplateIdle
    /\ McpIdle
    /\ SignalIdle
    /\ ClassifyIdle
    /\ tInput \in SeqsUpTo(Bytes, MaxBytes)
    /\ tIn = tInput
    /\ tOut = <<>>
    /\ tClosed = FALSE
    /\ tCalls = <<>>
    /\ tWriters = [g \in Goroutines |-> NotWriting]

NextTransport ==
    \/ ReadMessage
    \/ \E msg \in Messages : WriteMessage(msg)
    \/ Close

SpecTransport == InitTransport /\ [][NextTransport]_vars

\* One transport, written to from two goroutines.
InitWriters ==
    /\ config = [Providers |-> <<>>]
    /\ backend = <<>>
    /\ CollectorIdle
    /\ KeyIdle
    /\ OIDCIdle
    /\ CacheIdle
    /\ ChildIdle

NextWriters ==
    \/ \E g \in Goroutines, msg \in Messages : WriteBegin(g, msg)
    \/ \E g \in Goroutines : WriteLock(g)
    \/ \E g \in Goroutines : WriteData(g)
    \/ \E g \in Goroutines : WriteNewline(g)
    \/ CloseDuringWrites

SpecWriters == InitWriters /\ [][NextWriters]_vars

\* Any message the type can hold is classified.
InitClassify ==
    /\ config = [Providers |-> <<>>]
    /\ backend = <<>>
    /\ CollectorIdle
    /\ KeyIdle
    /\ OIDCIdle
    /\ CacheIdle
    /\ ssoTokens = NoSSO
    /\ child = NoChild
    /\ NamesIdle
    /\ RoutingIdle
    /\ FetchIdle
    /\ TextIdle
    /\ ExpandIdle
    /\ TemplateIdle
    /\ McpIdle
    /\ SignalIdle
    /\ TransportIdle
    /\ clsMsg \in JSONRPCMessages
    /\ clsOut = NotClassified
    /\ clsArgs = NotBuilt

NextClassify == Classify

SpecClassify == InitClassify /\ [][NextClassify]_vars

\* Runner.Run after cmd.Start, with up to MaxSignals signals delivered.
InitSignal ==
    /\ config = [Providers |-> <<>>]
    /\ backend = <<>>
    /\ CollectorIdle
    /\ KeyIdle
    /\ OIDCIdle
    /\ CacheIdle
    /\ ChildIdle

NextSignal ==
    \/ Notify
    \/ \E sig \in Signals : Deliver(sig)
    \/ Forward
    \/ Wait
    \/ Stop

SpecSignal == InitSignal /\ [][NextSignal]_vars

\* One invocation of `sstart mcp`.
InitMcp ==
    /\ config = [Providers |-> <<>>]
    /\ backend = <<>>
    /\ CollectorIdle
    /\ KeyIdle
    /\ OIDCIdle
    /\ CacheIdle
    /\ ChildIdle

NextMcp ==
    \/ McpCancel
    \/ \E outcome \in {"nil", "config", "no mcp", "collect"},
          servers \in (SUBSET McpServerIDs) \ {{}} : McpBegin(outcome, servers)
    \/ \E c \in DOMAIN mcpServers : McpChildExits(c)
    \/ \E cause \in {"eof", "cancel", "error"} : ProxyRunReturns(cause)
    \/ ProxyStop
    \/ McpReturn

SpecMcp == InitMcp /\ [][NextMcp]_vars

\* A template with one get_env expression, in any environment.
InitTemplate ==
    /\ config = [Providers |-> <<>>]
    /\ backend = <<>>
    /\ CollectorIdle
    /\ KeyIdle
    /\ OIDCIdle
    /\ CacheIdle
    /\ ssoTokens = NoSSO
    /\ child = NoChild
    /\ NamesIdle
    /\ RoutingIdle
    /\ FetchIdle
    /\ TextIdle
    /\ ExpandIdle
    /\ TransportIdle
    /\ ClassifyIdle
    /\ SignalIdle
    /\ McpIdle
    /\ tplEnv \in [TplNames -> TplValues]
    /\ tplIn \in Templates
    /\ tplOut = NotExpanded

NextTemplate == ExpandGetEnv

SpecTemplate == InitTemplate /\ [][NextTemplate]_vars

\* A response is built by one of the constructors and classified.
InitBuild ==
    /\ config = [Providers |-> <<>>]
    /\ backend = <<>>
    /\ CollectorIdle
    /\ KeyIdle
    /\ OIDCIdle
    /\ CacheIdle
    /\ ChildIdle

NextBuild ==
    \/ \E id \in ResponseIDs, result \in ResponseResults :
           BuildResponse(id, result)
    \/ \E id \in ResponseIDs, code \in {MethodNotFound, InternalError},
          data \in BOOLEAN : BuildErrorResponse(id, code, data)
    \/ ClassifyBuilt

SpecBuild == InitBuild /\ [][NextBuild]_vars

\* Collect expands the configuration of one provider.
InitExpand ==
    /\ config = [Providers |-> <<>>]
    /\ backend = <<>>
    /\ CollectorIdle
    /\ KeyIdle
    /\ OIDCIdle
    /\ CacheIdle
    /\ ssoTokens = NoSSO
    /\ child = NoChild
    /\ NamesIdle
    /\ RoutingIdle
    /\ FetchIdle
    /\ TextIdle
    /\ TransportIdle
    /\ ClassifyIdle
    /\ SignalIdle
    /\ McpIdle
    /\ TemplateIdle
    /\ xCfg \in NestedConfigs
    /\ xOut = [done |-> FALSE, cfg |-> <<>>]

NextExpand == ExpandConfig

SpecExpand == InitExpand /\ [][NextExpand]_vars

\* Mask applied to one value.
InitMask ==
    /\ config = [Providers |-> <<>>]
    /\ backend = <<>>
    /\ CollectorIdle
    /\ KeyIdle
    /\ OIDCIdle
    /\ CacheIdle
    /\ ssoTokens = NoSSO
    /\ child = NoChild
    /\ NamesIdle
    /\ RoutingIdle
    /\ FetchIdle
    /\ TransportIdle
    /\ ClassifyIdle
    /\ SignalIdle
    /\ McpIdle
    /\ TemplateIdle
    /\ ExpandIdle
    /\ txtIn \in MaskValues
    /\ txtSecrets = {}
    /\ txtOut = NoText

NextMask == MaskValue

SpecMask == InitMask /\ [][NextMask]_vars

\* escapeShell applied to one value.
InitShell ==
    /\ config = [Providers |-> <<>>]
    /\ backend = <<>>
    /\ CollectorIdle
    /\ KeyIdle
    /\ OIDCIdle
    /\ CacheIdle
    /\ ssoTokens = NoSSO
    /\ child = NoChild
    /\ NamesIdle
    /\ RoutingIdle
    /\ FetchIdle
    /\ TransportIdle
    /\ ClassifyIdle
    /\ SignalIdle
    /\ McpIdle
    /\ TemplateIdle
    /\ ExpandIdle
    /\ txtIn \in ShellValues
    /\ txtSecrets = {}
    /\ txtOut = NoText

NextShell == EscapeValue

SpecShell == InitShell /\ [][NextShell]_vars

\* Redact applied to one text and one map of secrets.
InitRedact ==
    /\ config = [Providers |-> <<>>]
    /\ backend = <<>>
    /\ CollectorIdle
    /\ KeyIdle
    /\ OIDCIdle
    /\ CacheIdle
    /\ ssoTokens = NoSSO
    /\ child = NoChild
    /\ NamesIdle
    /\ RoutingIdle
    /\ FetchIdle
    /\ TransportIdle
    /\ ClassifyIdle
    /\ SignalIdle
    /\ McpIdle
    /\ TemplateIdle
    /\ ExpandIdle
    /\ txtIn \in Texts
    /\ txtSecrets \in SUBSET SecretValues
    /\ txtOut = NoText

NextRedact == RedactText

SpecRedact == InitRedact /\ [][NextRedact]_vars

\* One Fetch of a Doppler or of an Infisical provider.
InitFetch ==
    /\ config = [Providers |-> <<>>]
    /\ backend = <<>>
    /\ CollectorIdle
    /\ KeyIdle
    /\ OIDCIdle
    /\ CacheIdle
    /\ ssoTokens = NoSSO
    /\ child = NoChild
    /\ NamesIdle
    /\ RoutingIdle
    /\ TransportIdle
    /\ ClassifyIdle
    /\ SignalIdle
    /\ McpIdle
    /\ TemplateIdle
    /\ ExpandIdle
    /\ TextIdle
    /\ pvKind \in {"doppler", "infisical"}
    /\ pvCfg \in FetchConfigs(pvKind)
    /\ pvEnv \in FetchEnvs
    /\ pvLog = <<>>
    /\ pvRequests = <<>>
    /\ pvRet = NotFetched

NextFetch ==
    \/ DopplerFetchCall
    \/ InfisicalFetchCall

SpecFetch == InitFetch /\ [][NextFetch]_vars

(***************************************************************************)
(* Properties of the Collector and of Fetch, checked under Spec.           *)
(***************************************************************************)
\* What the claims call the effective provider list and the declared ids.
ClaimedList ==
    IF cArgs # <<>> THEN cArgs
    ELSE [i \in 1..Len(config.Providers) |-> config.Providers[i].ID]
ClaimedDeclared == {config.Providers[i].ID : i \in DOMAIN config.Providers}
ProducedKeys(entry) == {entry.kvs[j].Key : j \in DOMAIN entry.kvs}
DeclaredProvider(id) ==
    config.Providers[CHOOSE i \in DOMAIN config.Providers :
                         config.Providers[i].ID = id]

\* C1: a call of Collect that succeeds has fetched the effective list (the
\* filter in the given order when non-empty, otherwise the declared
\* providers in declaration order) one provider after the other; the
\* returned map has exactly the keys some listed provider produced, and
\* each key holds a value produced for it by the last provider in the list
\* that produced it.
C1_LastListedProviderWins ==
    (cPc = "done" /\ cRet.err.kind = "none") =>
        /\ ~cRet.isNil
        /\ Len(cLog) = Len(ClaimedList)
        /\ \A i \in DOMAIN cLog : cLog[i].id = ClaimedList[i] /\ ~cLog[i].err
        /\ DOMAIN cRet.secrets = UNION {ProducedKeys(cLog[i]) : i \in DOMAIN cLog}
        /\ \A k \in DOMAIN cRet.secrets :
             LET last == CHOOSE i \in DOMAIN cLog :
                            /\ k \in ProducedKeys(cLog[i])
                            /\ \A j \in DOMAIN cLog :
                                  j > i => k \notin ProducedKeys(cLog[j])
             IN  \E j \in DOMAIN cLog[last].kvs :
                    cLog[last].kvs[j] = [Key |-> k, Value |-> cRet.secrets[k]]

\* C1 witness: the filter <<"b", "a">> reverses the declaration order, both
\* providers produce "A", and the map holds the value of "a".
C1_Witness ==
    /\ cPc = "done" /\ cRet.err.kind = "none"
    /\ cArgs = <<"b", "a">>
    /\ config.Providers[1].ID = "a"
    /\ "A" \in ProducedKeys(cLog[1]) /\ "A" \in ProducedKeys(cLog[2])
    /\ cRet.secrets["A"] = "1"

\* Whether constructing or fetching the listed provider id fails.
ClaimedFailure(id) ==
    /\ id \in ClaimedDeclared
    /\ \/ DeclaredProvider(id).Kind \notin {"doppler", "infisical", "template"}
       \/ backend[id].fails

\* C2: when constructing or fetching a provider of the effective list
\* fails, Collect returns a nil map and an error naming that provider, the
\* first of the list to fail, and no provider after it has been fetched.
C2_NoPartialSuccess ==
    (cPc = "done" /\ cRet.err.kind \in {"create", "fetch"}) =>
        \E p \in DOMAIN ClaimedList :
            /\ ClaimedFailure(ClaimedList[p])
            /\ \A i \in 1..(p - 1) : ~ClaimedFailure(ClaimedList[i])
            /\ cRet.err.id = ClaimedList[p]
            /\ cRet.isNil
            /\ Len(cLog) <= p
            /\ \A i \in DOMAIN cLog : cLog[i].id = ClaimedList[i]

\* C2 witness: "a" has been fetched and merged, then the fetch of "b"
\* fails and the call returns no map.
C2_Witness ==
    /\ cPc = "done"
    /\ cRet.err = [kind |-> "fetch", id |-> "b"]
    /\ cArgs = <<"a", "b">>
    /\ cSecrets # <<>>
    /\ cRet.isNil

\* C3 (as claimed): a filter holding an id that is not configured, at
\* whatever position, makes Collect return an error before any Fetch.
C3_UnknownIdBeforeAnyFetch ==
    (cPc # "idle" /\ \E i \in DOMAIN cArgs : cArgs[i] \notin ClaimedDeclared) =>
        /\ cLog = <<>>
        /\ cPc = "done" => cRet.err.kind # "none"

\* C4 (as claimed): with the configuration and the provider responses
\* fixed, two calls of Collect with the same arguments return the same map.
C4_MergeDeterminism ==
    (cPc = "done" /\ cPrev.valid) =>
        /\ cRet.isNil = cPrev.ret.isNil
        /\ cRet.secrets = cPrev.ret.secrets

\* The pairs the key-selection contract asks of a Fetch.
ClaimedSelection(data, keys) ==
    IF DOMAIN keys = {} THEN DOMAIN data ELSE DOMAIN data \cap DOMAIN keys
ClaimedName(k, keys) ==
    IF DOMAIN keys = {} THEN k
    ELSE IF keys[k] = "==" THEN k ELSE keys[k]
ClaimedValue(v) == IF v.t = "str" THEN v.s ELSE Digits[v.n + 1]

\* C5: a successful Fetch returns exactly one pair per backend secret when
\* the key map is empty, and exactly one pair per backend secret listed in
\* the key map otherwise, under the source name for "==" and under the
\* mapped name for any other target; unlisted secrets yield no pair.
C5_KeySelection ==
    \A i \in DOMAIN cLog :
        ~cLog[i].err =>
            LET data == backend[cLog[i].id].data
                keys == DeclaredProvider(cLog[i].id).Keys
                kvs == cLog[i].kvs
            IN  \E ord \in Orders(ClaimedSelection(data, keys)) :
                    /\ Len(kvs) = Len(ord)
                    /\ \A j \in DOMAIN ord :
                          kvs[j] = [Key |-> ClaimedName(ord[j], keys),
                                    Value |-> ClaimedValue(data[ord[j]])]

\* C5 witness: one call fetched "a" with A kept by "==" and B renamed to
\* X, and "b" with A kept, C unlisted and Z absent from the backend.
C5_Witness ==
    /\ Len(cLog) = 2
    /\ ~cLog[1].err /\ ~cLog[2].err
    /\ DeclaredProvider("a").Keys = [A |-> "==", B |-> "X"]
    /\ DeclaredProvider("b").Keys = [A |-> "==", Z |-> "Q"]
    /\ \E i \in 1..2 : cLog[i].id = "b" /\ cLog[i].kvs = <<[Key |-> "A", Value |-> "3"]>>
    /\ \E i \in 1..2 : cLog[i].id = "a" /\ Len(cLog[i].kvs) = 2
                       /\ [Key |-> "X", Value |-> "7"] \in Range(cLog[i].kvs)

\* C6 (as claimed): a second call of Collect with the same configuration
\* and arguments, started within the cache TTL of a first call that
\* succeeded, returns the same map and calls no provider's Fetch.
C6_CacheHitSuppressesFetch ==
    (cPc = "done" /\ cPrev.valid /\ cPrev.ret.err.kind = "none"
        /\ cPrev.gap < TTL) =>
        /\ cRet.err.kind = "none"
        /\ cRet.secrets = cPrev.ret.secrets
        /\ cLog = <<>>

(***************************************************************************)
(* Properties of GenerateCacheKey, checked under SpecKey.                  *)
(***************************************************************************)
\* A config without the reserved SSO entries (a nil config has none).
ClaimedNonReserved(cfg) ==
    IF cfg.isNil THEN <<>>
    ELSE [k \in DOMAIN cfg.m \ {"_sso_access_token", "_sso_id_token"} |->
            cfg.m[k]]

\* C7: two calls of GenerateCacheKey with the same provider id and kind
\* and configs that agree outside `_sso_access_token` and `_sso_id_token`
\* (absent, present, or present with other values) return the same key.
C7_FingerprintStability ==
    (/\ kCur.valid /\ kPrev.valid
     /\ kCur.providerID = kPrev.providerID
     /\ kCur.kind = kPrev.kind
     /\ ClaimedNonReserved(kCur.cfg) = ClaimedNonReserved(kPrev.cfg))
        => kCur.key = kPrev.key

\* C7 witness: the same provider, once without tokens and once with both
\* tokens, and the same key.
C7_Witness ==
    /\ kCur.valid /\ kPrev.valid
    /\ kCur.providerID = kPrev.providerID /\ kCur.kind = kPrev.kind
    /\ ~kCur.cfg.isNil /\ ~kPrev.cfg.isNil
    /\ DOMAIN kPrev.cfg.m = {"address", "opts"}
    /\ DOMAIN kCur.cfg.m =
          {"address", "opts", "_sso_access_token", "_sso_id_token"}
    /\ ClaimedNonReserved(kCur.cfg) = kPrev.cfg.m
    /\ kCur.key = kPrev.key

\* C8 (as claimed): two calls that differ in the provider id, in the kind
\* or in the value of a non-reserved config key return different keys.
C8_FingerprintSensitivity ==
    (/\ kCur.valid /\ kPrev.valid
     /\ \/ kCur.providerID # kPrev.providerID
        \/ kCur.kind # kPrev.kind
        \/ ClaimedNonReserved(kCur.cfg) # ClaimedNonReserved(kPrev.cfg))
        => kCur.key # kPrev.key

(***************************************************************************)
(* Properties of the Cache, checked under SpecCache.                       *)
(***************************************************************************)
\* C9 (as claimed): after a Set(F, S) that returned nil, with no Set(F),
\* ClearProvider(F) or Clear since, a Get(F) before the TTL has run out
\* returns found = true and exactly S, whichever backend took the save,
\* and a Get(F) after the TTL returns a miss.
C9_CacheRoundTrip ==
    (lastOp.op = "Get" /\ lastSet[lastOp.key].valid) =>
        LET set == lastSet[lastOp.key]
        IN  /\ lastOp.at < set.at + TTL =>
                  lastOp.found /\ lastOp.secrets = set.secrets
            /\ lastOp.at > set.at + TTL => ~lastOp.found

\* C10 (as claimed): Get(F) returns the stored secrets if and only if an
\* entry for F exists and now < expires_at; at now = expires_at it is a
\* miss.
C10_GetIffNotExpired ==
    lastOp.op = "Get" =>
        /\ lastOp.found <=>
              (lastOp.entry.exists /\ lastOp.at < lastOp.entry.ExpiresAt)
        /\ lastOp.found => lastOp.secrets = lastOp.entry.Secrets

\* C11 (as claimed): over a cache file holding {}, {"providers": null} or
\* text that is not JSON no cache operation panics, and a Set over such a
\* file returns.
C11_TolerantLoad ==
    lastOp.op \in {"Get", "Set", "Clear", "ClearProvider", "CleanExpired",
                   "Stats"} => ~lastOp.panicked

\* The store the last save wrote: a save leaves it in the file, or in the
\* keyring with the file removed.
ClaimedSaved ==
    IF file.kind # "absent" THEN UnmarshalStore(file).store
    ELSE UnmarshalStore(keyringItem).store

\* C36: after a save by Set, ClearProvider, CleanExpired or a pruning Get
\* the next load of the cache returns the store just saved, whatever the
\* keyring still holds.
C36_BackendCoherence ==
    (lastOp.op \in {"Set", "ClearProvider", "CleanExpired", "Get"}
     /\ lastOp.wrote /\ ~lastOp.panicked) =>
        \A usable \in ProbeOutcomes :
            LoadStore(CacheState, usable).store = ClaimedSaved

(***************************************************************************)
(* Properties of concurrent cache calls, checked under SpecRace.           *)
(***************************************************************************)
\* The store the next load of the cache returns.
ClaimedStored ==
    LET probe == CHOOSE usable \in ProbeOutcomes : TRUE
    IN  LoadStore(CacheState, probe).store

\* C12 (as claimed): once all concurrent calls have returned, every entry
\* whose Set returned and whose TTL has not run out is in the store with
\* the secrets of that Set: no interleaving of two Sets loses an update
\* and no pruning Get discards the entry of a concurrent Set.
C12_NoLostUpdate ==
    NooneRunning =>
        \A k \in CacheKeys :
            (lastSet[k].valid /\ now <= lastSet[k].at + TTL) =>
                /\ ~ClaimedStored.isNil
                /\ k \in DOMAIN ClaimedStored.Providers.m
                /\ ClaimedStored.Providers.m[k].Secrets = lastSet[k].secrets

(***************************************************************************)
(* Properties of the keyring probe and of pruning, checked under           *)
(* SpecCache.                                                              *)
(***************************************************************************)
\* C13: the probe of the keyring runs at most once per Cache and its
\* answer is kept; once it classified the keyring unusable, no later Get,
\* Set, Clear, ClearProvider, CleanExpired or Stats goes to the keyring,
\* and the keyring entry stays as it was.
C13_ProbeOnce ==
    lastOp.op # "none" =>
        /\ keyringTested
        /\ lastOp.probed <=> ~lastOp.tested
        /\ lastOp.tested => keyringDisabled = lastOp.disabled
        /\ keyringDisabled => ~lastOp.keyring /\ keyringItem = Absent

\* C13 witness: a Set by a cache whose keyring had been classified
\* unusable by an earlier operation went to the file.
C13_Witness ==
    /\ lastOp.op = "Set"
    /\ lastOp.tested /\ lastOp.disabled
    /\ ~lastOp.probed /\ ~lastOp.keyring
    /\ file.kind = "json" /\ ~file.providers.isNil
    /\ lastOp.key \in DOMAIN file.providers.m

\* C14 (as claimed): ClearProvider(F) removes exactly the entry for F and
\* CleanExpired removes exactly the entries whose expiry has passed; the
\* store the cache reads afterwards holds every other entry as it was, and
\* CleanExpired writes nothing when no entry is expired.
C14_GranularPruning ==
    LET before == lastOp.before
        after == ClaimedStored.Providers.m
        passed == {k \in DOMAIN before : before[k].ExpiresAt < lastOp.at}
        removed == IF lastOp.op = "ClearProvider" THEN {lastOp.key}
                   ELSE passed
    IN  lastOp.op \in {"ClearProvider", "CleanExpired"} =>
            /\ DOMAIN after = DOMAIN before \ removed
            /\ \A k \in DOMAIN after : after[k] = before[k]
            /\ (lastOp.op = "CleanExpired" /\ passed = {}) => ~lastOp.wrote

\* C15 (as claimed): Stats returns the number of stored entries, the number
\* of them a Get at the same instant would return, and their difference,
\* which counts exactly the entries CleanExpired would remove at that
\* instant; Stats leaves the store as it was.
C15_StatsAgreesWithGet ==
    LET m == lastOp.before
        hits == {k \in DOMAIN m : ~IsExpired(lastOp.at, m[k].ExpiresAt)}
        cleaned == {k \in DOMAIN m : IsExpired(lastOp.at, m[k].ExpiresAt)}
    IN  lastOp.op = "Stats" =>
            /\ lastOp.stats = <<Cardinality(DOMAIN m), Cardinality(hits),
                                Cardinality(cleaned)>>
            /\ ClaimedStored.Providers.m = m

(***************************************************************************)
(* Properties of the OIDC client, checked under SpecOIDC.                  *)
(***************************************************************************)
\* C16: with a client secret set an invocation acquires tokens by the
\* client-credentials grant only and never starts the interactive PKCE
\* flow; when that grant fails the invocation ends with an error.  With
\* no secret the client-credentials grant is never used.
C16_NoFallback ==
    /\ clientSecret # "" =>
           /\ HasClientCredentials
           /\ "pkce" \notin auth.events
           /\ auth.pc # "interactive"
           /\ auth.err => auth.pc = "failed"
    /\ clientSecret = "" =>
           /\ ~HasClientCredentials
           /\ "client_credentials" \notin auth.events

\* C16 witness: with a secret set, the client-credentials grant failed and
\* the invocation ended with an error, nothing else tried.
C16_Witness ==
    /\ clientSecret # ""
    /\ auth.pc = "failed" /\ auth.err
    /\ auth.events = {"client_credentials"}

\* C17: an invocation with --force-auth never uses nor refreshes the
\* stored tokens, whatever their state; when it has succeeded it has run
\* a full token exchange and the store holds the token set that exchange
\* issued, not the earlier one.
C17_ForceAuthIgnoresStored ==
    auth.forceAuth =>
        /\ auth.events \cap {"stored", "refresh"} = {}
        /\ auth.pc = "done" =>
               /\ auth.events \cap {"client_credentials", "pkce"} # {}
               /\ TokensExist
               /\ tokens.serial = issued
               /\ tokens.serial > auth.had.serial

\* C17 witness: --force-auth over stored tokens that were not expired
\* succeeded and replaced them.
C17_Witness ==
    /\ auth.forceAuth /\ auth.pc = "done"
    /\ auth.had.state = "valid"
    /\ tokens.state = "valid" /\ tokens.serial > auth.had.serial

(***************************************************************************)
(* Properties of the child's environment, checked under SpecChild.         *)
(***************************************************************************)
\* C18: the reserved entries added to a provider's configuration are no
\* keys of the map Collect returns and no variables of the environment
\* handed to a child, the token values are no values of that environment,
\* and with the provider's responses fixed Collect returns the same map
\* (or fails alike) whatever the values of the tokens.
C18_TokensNeverReachChild ==
    /\ child.pc \in {"collected", "started"} =>
           DOMAIN child.secrets \cap ReservedKeys = {}
    /\ child.pc # "idle" =>
           \A t \in SSOTokens :
               t.present = ssoTokens.present =>
                   LET other == CollectOne(child.cfg, child.keys, t,
                                           child.order)
                   IN  /\ other.err = child.err
                       /\ other.secrets = child.secrets
    /\ child.pc = "started" =>
           \A i \in DOMAIN child.env :
               /\ child.env[i].key \notin ReservedKeys
               /\ ssoTokens.present =>
                      child.env[i].value \notin {ssoTokens.access,
                                                 ssoTokens.id}

\* A child was started with collected secrets while the provider's
\* effective configuration held both tokens.
C18_Witness ==
    /\ child.pc = "started"
    /\ child.cmd = "run"
    /\ ssoTokens.present
    /\ ReservedKeys \subseteq DOMAIN child.effective
    /\ child.effective["_sso_access_token"] = CStr(ssoTokens.access)
    /\ child.secrets # <<>>
    /\ Len(child.env) > Len(Environ)

ClaimedChild(name) == name[1]
ClaimedRaw(name) == SubSeq(name, 3, Len(name))
ClaimedRoutable(req) ==
    /\ req.method = "tools/call"
    /\ Len(req.name) >= 3
    /\ req.name[1] \in Children
    /\ req.name[2] = "/"
ClaimedTools ==
    {<<c, "/">> \o raw : c \in {"m1"}, raw \in Range(ToolsOf["m1"])}
        \cup {<<c, "/">> \o raw : c \in {"m2"}, raw \in Range(ToolsOf["m2"])}

\* C19: a tools/call of the host named C/N with C a configured child is
\* written to child C once, under the name N, and to no other child; every
\* message a child is given is such a call; once the child has answered
\* and the answer was dispatched the host holds the child's result as the
\* child wrote it, once.  A tools/list is answered with the tools of all
\* children, each named <childId>/<raw>, each once.
C19_ProxyRouting ==
    /\ \A i \in DOMAIN hostSent :
           ClaimedRoutable(hostSent[i]) =>
               \E e \in routed :
                   /\ e.request = i
                   /\ e.child = ClaimedChild(hostSent[i].name)
                   /\ \A e2 \in routed : e2.request = i => e2 = e
                   /\ Cardinality(
                          {j \in DOMAIN childIn[e.child] :
                              childIn[e.child][j] =
                                  [id |-> NumID(e.childReqId),
                                   method |-> "tools/call",
                                   name |-> ClaimedRaw(hostSent[i].name)]})
                          = 1
                   /\ Cardinality(
                          {k \in DOMAIN hostOut :
                              /\ hostOut[k].error = NoError
                              /\ hostOut[k].result =
                                     ChildResult(e.child, e.childReqId,
                                         ClaimedRaw(hostSent[i].name))})
                          = IF e \in table THEN 0 ELSE 1
    /\ \A c \in Children :
           \A j \in DOMAIN childIn[c] :
               \E e \in routed :
                   /\ e.child = c
                   /\ NumID(e.childReqId) = childIn[c][j].id
                   /\ ClaimedRoutable(hostSent[e.request])
                   /\ hostSent[e.request].name = <<c, "/">> \o childIn[c][j].name
    /\ Len(childIn["m1"]) + Len(childIn["m2"])
           = Cardinality({i \in DOMAIN hostSent : ClaimedRoutable(hostSent[i])})
    /\ \A i \in DOMAIN hostSent :
           hostSent[i].method = "tools/list" =>
               \E k \in DOMAIN hostOut :
                   /\ hostOut[k].id = MarshalID(UnmarshalID(hostSent[i].id))
                   /\ hostOut[k].error = NoError
                   /\ hostOut[k].result.t = "tools"
                   /\ Range(hostOut[k].result.tools) = ClaimedTools
                   /\ Len(hostOut[k].result.tools) = Cardinality(ClaimedTools)

\* The host called "m2/t" and listed the tools; m2 was given "t", answered,
\* and both responses went to the host.
C19_Witness ==
    /\ \E i \in DOMAIN hostSent :
           /\ hostSent[i].method = "tools/call"
           /\ hostSent[i].name = <<"m2", "/", "t">>
    /\ \E i \in DOMAIN hostSent : hostSent[i].method = "tools/list"
    /\ Len(childIn["m2"]) = 1
    /\ childIn["m2"][1].name = <<"t">>
    /\ table = {}
    /\ Len(hostOut) = 2

\* The responses on the host transport that carry what child e.child
\* answered to its request e.childReqId.
ClaimedAnswers(e) ==
    {k \in DOMAIN hostOut :
        /\ hostOut[k].result.t = "content"
        /\ hostOut[k].result.by = e.child
        /\ hostOut[k].result.req = e.childReqId}

\* C20: whatever is in flight and in whatever order the children answer,
\* a routed host request has no response while it is outstanding and one
\* response afterwards, that response carries the id the host wrote, every
\* id on the host transport is an id the host wrote, and the ids given to
\* one child grow strictly, so that none is in use twice.
C20_IdIsolation ==
    /\ \A e \in routed :
           /\ Cardinality(ClaimedAnswers(e)) = IF e \in table THEN 0 ELSE 1
           /\ \A k \in ClaimedAnswers(e) :
                  hostOut[k].id = hostSent[e.request].id
    /\ \A k \in DOMAIN hostOut :
           \E i \in DOMAIN hostSent : hostOut[k].id = hostSent[i].id
    /\ \A c \in Children :
           /\ \A i, j \in DOMAIN childIn[c] :
                  i < j => childIn[c][i].id.n < childIn[c][j].id.n
           /\ \A e1, e2 \in table :
                  e1.child = c /\ e2.child = c /\ e1 # e2
                      => e1.childReqId # e2.childReqId

(***************************************************************************)
(* Properties of the proxy's name space, checked under SpecNames.          *)
(***************************************************************************)
\* The (server, raw name) pairs of the accepted configuration, over every
\* raw name a child may declare.
ClaimedPairs == (DOMAIN nsServers) \X RawNames

\* C21: every name of an aggregated list is <childId>/<raw> for exactly one
\* pair of a configured child and a raw name it may declare: no two pairs
\* of an accepted configuration yield the same namespaced name.
C21_NamespacingBijection ==
    \A k \in DOMAIN nsListed :
        Cardinality({p \in ClaimedPairs :
                        nsServers[p[1]] \o <<"/">> \o p[2] = nsListed[k]}) = 1

(***************************************************************************)
(* Properties of the proxy with failing children, under SpecProxyFail.     *)
(***************************************************************************)
\* The responses to host request i that carry an internal error.
ClaimedErrors(i) ==
    {k \in DOMAIN hostOut :
        /\ hostOut[k].id = MarshalID(UnmarshalID(hostSent[i].id))
        /\ hostOut[k].error = [isNil |-> FALSE, code |-> -32603]}

\* Every request routed to c has one response: the child's, or the error.
ClaimedCompleted(c) ==
    \A e \in routed :
        e.child = c =>
            /\ e \notin table
            /\ Cardinality(ClaimedAnswers(e))
                   + Cardinality(ClaimedErrors(e.request)) = 1

\* The step is a host request addressed to child c.
ClaimedRequestTo(c) ==
    /\ Len(hostSent') = Len(hostSent) + 1
    /\ ClaimedRoutable(hostSent'[Len(hostSent')])
    /\ ClaimedChild(hostSent'[Len(hostSent')].name) = c

\* C22: after a child has closed its stdout every request outstanding at it
\* is eventually completed with an internal error (or with what the child
\* still wrote), once; a later request addressed to the failed child is
\* answered with the same error and not written to it; the child does not
\* run again; a request addressed to a running child is still written to
\* that child.
C22_ChildFailureAnswered ==
    /\ \A c \in Children :
           (childState[c] = "closed")
               ~> (childState[c] = "failed" /\ ClaimedCompleted(c))
    /\ [](\A c \in Children : childState[c] = "failed" => ClaimedCompleted(c))
    /\ [][\A c \in Children :
             /\ childState[c] # "running" => childState'[c] # "running"
             /\ childState[c] = "failed" => childIn'[c] = childIn[c]
             /\ childState[c] = "failed" /\ ClaimedRequestTo(c) =>
                    /\ Len(hostOut') = Len(hostOut) + 1
                    /\ hostOut'[Len(hostOut')].id =
                           MarshalID(UnmarshalID(hostSent'[Len(hostSent')].id))
                    /\ hostOut'[Len(hostOut')].error =
                           [isNil |-> FALSE, code |-> -32603]
             /\ childState[c] = "running" /\ ClaimedRequestTo(c) =>
                    Len(childIn'[c]) = Len(childIn[c]) + 1]_vars

\* m1 failed with a request outstanding, which was completed with the
\* error; a request addressed to m2 afterwards was written to m2.
C22_Witness ==
    /\ childState["m1"] = "failed"
    /\ childState["m2"] = "running"
    /\ \E e \in routed :
           /\ e.child = "m1" /\ e.request = 1
           /\ Cardinality(ClaimedErrors(1)) = 1
    /\ \E e \in routed : e.child = "m2" /\ e.request = 2

(***************************************************************************)
(* Properties of the transport, checked under SpecTransport.               *)
(***************************************************************************)
\* What the claim says the lines of an input yield: the input is cut at
\* each LF, trailing white space (the CR of a CRLF included) is trimmed, a
\* line that is then empty yields nothing, a line that is the text of a
\* message yields the message, any other line an error.  Bytes after the
\* last LF are no line.
RECURSIVE ClaimedTrim(_)
ClaimedTrim(line) ==
    IF line # <<>> /\ line[Len(line)] \in {" ", "\t", "\r", "\n"}
    THEN ClaimedTrim(SubSeq(line, 1, Len(line) - 1))
    ELSE line

RECURSIVE ClaimedLines(_)
ClaimedLines(input) ==
    IF \A i \in DOMAIN input : input[i] # "\n" THEN <<>>
    ELSE LET n == CHOOSE i \in DOMAIN input :
                      input[i] = "\n" /\ \A j \in 1..(i - 1) : input[j] # "\n"
             line == ClaimedTrim(SubSeq(input, 1, n))
             text == SelectSeq(line, LAMBDA b : b \notin {" ", "\t", "\r"})
             rest == ClaimedLines(SubSeq(input, n + 1, Len(input)))
         IN  IF line = <<>> THEN rest
             ELSE IF text \in {<<"{1}">>, <<"{2}">>}
                  THEN <<[msg |-> IF text = <<"{1}">> THEN 1 ELSE 2,
                          err |-> FALSE]>> \o rest
                  ELSE <<[msg |-> 0, err |-> TRUE]>> \o rest

\* The reads of an open transport that did not return EOF, in order.
ClaimedReads ==
    LET reads == SelectSeq(tCalls, LAMBDA c : c.op = "read" /\ ~c.closed
                                              /\ c.err # "EOF")
    IN  [i \in DOMAIN reads |-> [msg |-> reads[i].msg,
                                 err |-> reads[i].err # ""]]

\* C23: once ReadMessage has returned EOF, the reads before it returned,
\* in input order, one message per line that is the text of a message,
\* with LF or CRLF and with or without trailing white space, nothing for a
\* line that is empty after trimming, and an error for a line that is not
\* valid JSON.
C23_TransportFraming ==
    (\E i \in DOMAIN tCalls : tCalls[i].op = "read" /\ tCalls[i].err = "EOF")
        => ClaimedReads = ClaimedLines(tInput)

\* The calls made after a Close had returned.
ClaimedLater == {i \in DOMAIN tCalls :
                    \E j \in 1..(i - 1) : tCalls[j].op = "close"}

\* C24: once Close has returned, every later ReadMessage and WriteMessage
\* returns an error, takes no byte from the reader and gives none to the
\* writer, and every later Close returns nil.
C24_ClosedIsAbsorbing ==
    \A i \in ClaimedLater :
        IF tCalls[i].op = "close"
        THEN tCalls[i].err = ""
        ELSE tCalls[i].err # "" /\ tCalls[i].read = 0 /\ tCalls[i].wrote = 0

\* Close returned while a message was still unread; a ReadMessage and a
\* WriteMessage were made after it.
C24_Witness ==
    /\ tIn # <<>>
    /\ Unmarshal(SubSeq(tIn, 1, FirstNewline(tIn))).err = ""
    /\ \E i, j \in ClaimedLater : tCalls[i].op = "read" /\ tCalls[j].op = "write"

\* The messages the claim says are delivered before EOF: those of every
\* line of the input, the bytes after the last LF being a line as well.
ClaimedDelivered ==
    LET whole == IF tInput # <<>> /\ tInput[Len(tInput)] # "\n"
                 THEN tInput \o <<"\n">> ELSE tInput
        lines == SelectSeq(ClaimedLines(whole), LAMBDA l : ~l.err)
    IN  [i \in DOMAIN lines |-> lines[i].msg]

\* C40: once ReadMessage has returned EOF, the messages it returned before
\* are, in order, those of every line the peer wrote, a final line without
\* a newline included.
C40_NoMessageLostAtEOF ==
    (\E i \in DOMAIN tCalls : tCalls[i].op = "read" /\ tCalls[i].err = "EOF")
        => LET got == SelectSeq(tCalls, LAMBDA c : c.op = "read" /\ c.err = "")
           IN  [i \in DOMAIN got |-> got[i].msg] = ClaimedDelivered

(***************************************************************************)
(* Properties of concurrent writes, checked under SpecWriters.             *)
(***************************************************************************)
\* The messages whose lines make up the bytes, <<0>> if the bytes are not
\* a sequence of complete lines, each the text of a message and one LF.
RECURSIVE ClaimedWritten(_)
ClaimedWritten(bytes) ==
    IF bytes = <<>> THEN <<>>
    ELSE IF Len(bytes) >= 2 /\ bytes[1] \in {"{1}", "{2}"} /\ bytes[2] = "\n"
         THEN LET rest == ClaimedWritten(SubSeq(bytes, 3, Len(bytes)))
              IN  IF rest = <<0>> THEN <<0>>
                  ELSE <<IF bytes[1] = "{1}" THEN 1 ELSE 2>> \o rest
         ELSE <<0>>

\* The messages of the WriteMessage calls that returned nil, in the order
\* of their return.
ClaimedSent ==
    LET sent == SelectSeq(tCalls, LAMBDA c : c.op = "write" /\ c.err = "")
    IN  [i \in DOMAIN sent |-> sent[i].msg]

\* C25: however concurrent WriteMessage calls interleave, at most one line
\* is being written, and the bytes at the writer (with the LF of the line
\* being written) are complete lines, one per message: those of the calls
\* that returned, in their order, then the one being written.
C25_AtomicWrites ==
    LET writing == {g \in Goroutines : tWriters[g].pc = "data"}
    IN  /\ Cardinality(writing) <= 1
        /\ IF writing = {}
           THEN ClaimedWritten(tOut) = ClaimedSent
           ELSE ClaimedWritten(tOut \o <<"\n">>) =
                    ClaimedSent \o <<tWriters[CHOOSE g \in writing : TRUE].msg>>

\* A line has reached the writer and the text of the next one follows it,
\* while both goroutines are inside WriteMessage.
C25_Witness ==
    /\ Len(tOut) >= 3
    /\ \A g \in Goroutines : tWriters[g].pc # "idle"
    /\ \E g \in Goroutines : tWriters[g].pc = "data"

\* C37: a WriteMessage that runs along with a Close either fails with the
\* closed error and writes nothing or has all its bytes at the writer
\* before Close returns: once Close has returned, no step gives a byte to
\* the writer.
C37_CloseWriteLinearizable ==
    [][tClosed => tOut' = tOut]_vars

(***************************************************************************)
(* Properties of the classification, checked under SpecClassify.           *)
(***************************************************************************)
ClaimedHasMethod == clsMsg.method # ""
ClaimedHasId == clsMsg.id \notin {[t |-> "nil"], [t |-> "null"]}

\* C26: a message is a request iff it has a method and a non-null id, a
\* notification iff it has a method and no id, a response iff it has a
\* result or an error; a message with a method is exactly one of request
\* and notification; no message is both a response and a request or a
\* notification.
C26_MessageClassification ==
    clsOut.done =>
        /\ clsOut.request <=> (ClaimedHasMethod /\ ClaimedHasId)
        /\ clsOut.notification <=> (ClaimedHasMethod /\ ~ClaimedHasId)
        /\ clsOut.response <=> (clsMsg.result # "" \/ ~clsMsg.error.isNil)
        /\ ClaimedHasMethod => (clsOut.request <=> ~clsOut.notification)
        /\ ~(clsOut.response /\ (clsOut.request \/ clsOut.notification))

(***************************************************************************)
(* Properties of the signal forwarding, checked under SpecSignal.          *)
(***************************************************************************)
\* The signals the claim says are forwarded: those delivered between the
\* child's start and its exit, SIGCHLD excepted.
ClaimedDue ==
    SelectSeq(sigDelivered, LAMBDA d : d.during /\ d.sig # "SIGCHLD")

\* C28: the signals forwarded so far and those still buffered for the
\* forwarder are, in order, the signals other than SIGCHLD delivered
\* between the child's start and its exit (none dropped); SIGCHLD is never
\* forwarded; nothing is forwarded after the child was waited for.
C28_SignalForwarding ==
    /\ ClaimedDue =
           [i \in DOMAIN sigForwarded |->
               [sig |-> sigForwarded[i].sig, during |-> sigForwarded[i].during]]
           \o SelectSeq(sigChan, LAMBDA d : d.sig # "SIGCHLD")
    /\ \A i \in DOMAIN sigForwarded :
           /\ sigForwarded[i].sig # "SIGCHLD"
           /\ ~sigForwarded[i].afterWait

RECURSIVE ClaimedChars(_)
ClaimedChars(text) ==
    IF text = <<>> THEN ""
    ELSE (IF Head(text).t = "ref" THEN "$" \o Head(text).s ELSE Head(text).s)
         \o ClaimedChars(Tail(text))

ClaimedExpansion ==
    LET i == CHOOSE k \in DOMAIN tplIn : tplIn[k].t = "get_env"
        value == tplEnv[tplIn[i].name]
    IN  ClaimedChars(SubSeq(tplIn, 1, i - 1))
        \o ClaimedChars(IF value # <<>> THEN value ELSE tplIn[i].default)
        \o ClaimedChars(SubSeq(tplIn, i + 1, Len(tplIn)))

\* C30: {{ get_env(name="X", default="Y") }} expands, for every X and every
\* default Y, the empty one included, to the value of X when X is set and
\* not empty and to Y otherwise, and the text around it is kept.
C30_FunctionFormExpansion ==
    tplOut.done => tplOut.s = ClaimedExpansion

(***************************************************************************)
(* Properties of the constructors, checked under SpecBuild.                *)
(***************************************************************************)
\* C39: a message built by NewJSONRPCResponse or NewJSONRPCErrorResponse
\* carries the given id and is classified as a response and as nothing
\* else, whatever the result, a nil result included.
C39_BuiltResponses ==
    /\ clsArgs.fn # "" =>
           clsMsg.id = (IF clsArgs.id = [t |-> "nil"] THEN [t |-> "null"]
                        ELSE clsArgs.id)
    /\ (clsArgs.fn # "" /\ clsOut.done) =>
           clsOut.response /\ ~clsOut.request /\ ~clsOut.notification

(***************************************************************************)
(* Properties of expandConfigTemplates, checked under SpecExpand.          *)
(***************************************************************************)
\* What the claim says a value becomes: a string is expanded at any depth,
\* any other value stays.
RECURSIVE ClaimedExpanded(_)
ClaimedExpanded(v) ==
    CASE v.t = "str" -> [t |-> "str", s |-> IF v.s = "$P" THEN "proj" ELSE v.s]
      [] v.t = "map" -> [t |-> "map",
                         m |-> [k \in DOMAIN v.m |-> ClaimedExpanded(v.m[k])]]
      [] v.t = "list" -> [t |-> "list",
                          l |-> [i \in DOMAIN v.l |-> ClaimedExpanded(v.l[i])]]
      [] OTHER -> v

\* C31: the configuration handed to Fetch has every string expanded, at
\* any depth of maps and lists, and every other value as it was.
C31_RecursiveExpansion ==
    xOut.done =>
        xOut.cfg = [k \in DOMAIN xCfg |-> ClaimedExpanded(xCfg[k])]

(***************************************************************************)
(* Properties of Mask, checked under SpecMask.                             *)
(***************************************************************************)
\* What the claim says Mask returns for v; lengths are counted as Go's len
\* counts them.
ClaimedMask(v) ==
    IF Len(v) <= 4 THEN <<"*", "*", "*", "*">>
    ELSE IF Len(v) <= 8 THEN <<v[1], v[2], "*", "*", "*", "*">>
    ELSE <<v[1], v[2], "*", "*", "*", "*", v[Len(v) - 1], v[Len(v)]>>

RECURSIVE ClaimedQuoted(_, _)
ClaimedQuoted(v, idiom) ==
    IF v = <<>> THEN <<>>
    ELSE (IF Head(v) = "'" THEN idiom ELSE <<Head(v)>>)
             \o ClaimedQuoted(Tail(v), idiom)

\* The word a POSIX shell reads from w: single quotes keep every byte,
\* double quotes keep every byte but an escaped one, a backslash outside
\* quotes keeps the next byte.
RECURSIVE ShellRead(_, _)
ShellRead(w, mode) ==
    IF w = <<>> THEN (IF mode = "plain" THEN <<>> ELSE <<"unterminated">>)
    ELSE LET c == Head(w)
             r == Tail(w)
         IN  CASE mode = "sq" ->
                      IF c = "'" THEN ShellRead(r, "plain")
                      ELSE <<c>> \o ShellRead(r, "sq")
               [] mode = "dq" ->
                      IF c = "\"" THEN ShellRead(r, "plain")
                      ELSE IF c = "\\" /\ r # <<>>
                                 /\ Head(r) \in {"\"", "\\", "$"}
                      THEN <<Head(r)>> \o ShellRead(Tail(r), "dq")
                      ELSE <<c>> \o ShellRead(r, "dq")
               [] OTHER ->
                      IF c = "'" THEN ShellRead(r, "sq")
                      ELSE IF c = "\"" THEN ShellRead(r, "dq")
                      ELSE IF c = "\\" /\ r # <<>>
                      THEN <<Head(r)>> \o ShellRead(Tail(r), "plain")
                      ELSE <<c>> \o ShellRead(r, "plain")

\* C33, as stated: the shell-format output for a value v is v in single
\* quotes with each single quote of v replaced by the four characters '\''.
C33_ShellEscaping ==
    txtOut.fn = "escapeShell" =>
        txtOut.s = <<"'">> \o ClaimedQuoted(txtIn, <<"'", "\\", "'", "'">>)
                       \o <<"'">>

\* C33, amended: the shell-format output for a value v is v in single
\* quotes with each single quote of v replaced by the five characters
\* '"'"', and a shell reads the output back as v.
C33_ShellEscapingAmended ==
    txtOut.fn = "escapeShell" =>
        /\ txtOut.s = <<"'">>
               \o ClaimedQuoted(txtIn, <<"'", "\"", "'", "\"", "'">>)
               \o <<"'">>
        /\ ShellRead(txtOut.s, "plain") = txtIn

\* escapeShell has returned for a value with several single quotes.
C33_Witness ==
    /\ txtOut.fn = "escapeShell"
    /\ Cardinality({i \in DOMAIN txtIn : txtIn[i] = "'"}) > 1

(***************************************************************************)
(* Properties of Redact, checked under SpecRedact.                         *)
(***************************************************************************)
\* Position i of the text lies inside an occurrence of a secret value.
ClaimedInside(i) ==
    \E v \in txtSecrets, j \in 1..i :
        /\ Len(v) > 0
        /\ i < j + Len(v)
        /\ j + Len(v) - 1 <= Len(txtIn)
        /\ SubSeq(txtIn, j, j + Len(v) - 1) = v

\* C38: the text Redact returns is as long as the text it was given, has
\* a * at every position that lies inside an occurrence of a non-empty
\* secret value, and is the same for every order in which the secrets are
\* visited.
C38_RedactComplete ==
    txtOut.fn = "Redact" =>
        /\ Len(txtOut.s) = Len(txtIn)
        /\ \A i \in DOMAIN txtIn : ClaimedInside(i) => txtOut.s[i] = "*"
        /\ \A o \in RangeOrders(txtSecrets) : txtOut.s = Redact(txtIn, o)

(***************************************************************************)
(* Properties of the Fetch of a provider, checked under SpecFetch.         *)
(***************************************************************************)
\* The string s holds all of the non-empty string v.
ClaimedInFull(s, v) ==
    /\ v # <<>>
    /\ \E j \in 1..(Len(s) - Len(v) + 1) : SubSeq(s, j, j + Len(v) - 1) = v

\* C34: no line logged during a Fetch holds the Infisical client secret
\* or the Doppler token in full, whatever its length and whether the login
\* succeeds or fails.
C34_NoSecretLogged ==
    \A i \in DOMAIN pvLog :
        /\ ~ClaimedInFull(pvLog[i].str,
                          pvEnv["INFISICAL_UNIVERSAL_AUTH_CLIENT_SECRET"])
        /\ ~ClaimedInFull(pvLog[i].str, pvEnv["DOPPLER_TOKEN"])

\* The config lacks a field its provider requires, or a credential the
\* provider requires is not in the environment.
ClaimedInvalid ==
    IF pvKind = "doppler"
    THEN \/ \E k \in {"project", "config"} : ConfigField(pvCfg, k) = CStr("")
         \/ pvEnv["DOPPLER_TOKEN"] = <<>>
    ELSE \/ \E k \in {"project_id", "environment", "path"} :
                ConfigField(pvCfg, k) = CStr("")
         \/ pvEnv["INFISICAL_UNIVERSAL_AUTH_CLIENT_ID"] = <<>>
         \/ pvEnv["INFISICAL_UNIVERSAL_AUTH_CLIENT_SECRET"] = <<>>

\* C35: a Fetch of the Doppler or of the Infisical provider whose config
\* lacks a required field, or whose credentials are not in the environment,
\* returns an error and no key-value pair and has sent no request.
C35_ValidationBeforeIO ==
    (pvRet.done /\ ClaimedInvalid) =>
        /\ pvRet.err
        /\ pvRet.kvs = <<>>
        /\ pvRequests = <<>>

\* A Fetch of the Infisical provider has returned for a complete config
\* and an environment without the client secret.
C35_Witness ==
    /\ pvRet.done
    /\ pvKind = "infisical"
    /\ DOMAIN pvCfg = {"project_id", "environment", "path"}
    /\ pvEnv["INFISICAL_UNIVERSAL_AUTH_CLIENT_ID"] # <<>>
    /\ pvEnv["INFISICAL_UNIVERSAL_AUTH_CLIENT_SECRET"] = <<>>

====
